---- MODULE Spec2Model ----
(***************************************************************************)
(* State-machine model of the statsig-rs server SDK: the Client facade     *)
(* (src/src/client.rs), the local Evaluator with its three lock-guarded    *)
(* maps (src/src/evaluator/mod.rs), the value getters                      *)
(* (src/src/evaluator/getters.rs) and the user model (src/src/models.rs).  *)
(*                                                                         *)
(* Conventions.                                                            *)
(*   Option<T>      : <<>> for None, <<x>> for Some(x).                     *)
(*   serde_json     : a record [t, v, items]; t is the JSON kind, v the     *)
(*                    scalar as text ("" when there is none), items the     *)
(*                    elements of an array.                                 *)
(*   HashMap<K, V>  : a function with a finite domain of strings.           *)
(*   Wall-clock time (the `time` of an event) is not modelled.              *)
(***************************************************************************)
EXTENDS Integers, Sequences, FiniteSets, TLC

\* ------------------------------------------------------------------------
\* Bounds of the model.

\* Calls started over one behaviour of the facade, of the exposure queue and
\* of the catalog specification.
MaxCallsFacade == 2
MaxCallsQueue == 4
MaxCallsCatalog == 2
\* Ticks of the refresh timer over one behaviour.
MaxFetch == 1
\* Ticks of the 60 s flush timer over one behaviour.
MaxTicks == 2
\* Calls the callers make before the handle is dropped.
MaxCallsLifecycle == 2
\* Calls the callers make while the flush timer keeps ticking.
MaxCallsFlush == 3
\* Calls the caller makes against the evaluator's catalog.
MaxCallsEval == 2

\* client.rs:23 sets 950; the model scales the threshold down so that the
\* queue reaches and passes it within MaxCalls.
MAX_LOG_EVENTS == 2

\* ------------------------------------------------------------------------
\* Option and JSON values.

None == <<>>
Some(x) == <<x>>
IsSome(o) == o # <<>>
Unwrap(o) == o[1]

JNull == [t |-> "null", v |-> "", items |-> <<>>]
JBool(b) == [t |-> "bool", v |-> IF b THEN "true" ELSE "false", items |-> <<>>]
JStr(s) == [t |-> "string", v |-> s, items |-> <<>>]
JObj(s) == [t |-> "object", v |-> s, items |-> <<>>]
JArr(xs) == [t |-> "array", v |-> "", items |-> xs]
JNum(n) == [t |-> "number", v |-> ToString(n), items |-> <<>>]

\* serde_json::Value::as_str
as_str(j) == IF j.t = "string" THEN Some(j.v) ELSE None

\* serde_json::Value::as_array
as_array(j) == IF j.t = "array" THEN Some(j.items) ELSE None

\* An i64, written by its sign and the decimal digits of its magnitude, most
\* significant first; zero has no digits.
RECURSIVE DigitsOf(_)
DigitsOf(n) == IF n = 0 THEN <<>> ELSE Append(DigitsOf(n \div 10), n % 10)
I64(n) == [neg |-> n < 0, digits |-> DigitsOf(IF n < 0 THEN 0 - n ELSE n)]
RECURSIVE DigitsText(_)
DigitsText(ds) == IF ds = <<>> THEN "" ELSE ToString(Head(ds)) \o DigitsText(Tail(ds))
\* i64::to_string
I64Text(w) ==
    IF w.digits = <<>> THEN "0"
    ELSE (IF w.neg THEN "-" ELSE "") \o DigitsText(w.digits)
MagnitudeLess(a, b) ==
    \/ Len(a) < Len(b)
    \/ /\ Len(a) = Len(b)
       /\ \E i \in 1 .. Len(a) : a[i] < b[i] /\ \A j \in 1 .. i - 1 : a[j] = b[j]
\* a < b on i64
I64Less(a, b) ==
    IF a.neg # b.neg THEN a.neg
    ELSE IF a.neg THEN MagnitudeLess(b.digits, a.digits)
    ELSE MagnitudeLess(a.digits, b.digits)
\* a / 1000 on i64, which truncates towards zero
I64Div1000(a) ==
    LET ds == IF Len(a.digits) > 3 THEN SubSeq(a.digits, 1, Len(a.digits) - 3) ELSE <<>>
    IN [neg |-> a.neg /\ ds # <<>>, digits |-> ds]
\* i64::MAX is 9223372036854775807 and i64::MIN is -9223372036854775808.
InI64(w) ==
    ~MagnitudeLess(<<9, 2, 2, 3, 3, 7, 2, 0, 3, 6, 8, 5, 4, 7, 7, 5, 8, 0, IF w.neg THEN 8 ELSE 7>>,
                   w.digits)

\* The numerals the model's JSON numbers and numeric strings are written with:
\* the small ones, and magnitudes around one thousand, around i32::MAX, in
\* milliseconds and around i64::MAX, each with both signs.
MaxNumeral == 999
WideMagnitudes ==
    {<<1, 0, 0, 0>>, <<1, 9, 9, 9>>, <<1, 7, 0, 0, 0, 0, 0, 0, 0, 0>>,
     <<2, 1, 4, 7, 4, 8, 3, 6, 4, 6>>, <<2, 1, 4, 7, 4, 8, 3, 6, 4, 7>>,
     <<2, 1, 4, 7, 4, 8, 3, 6, 4, 8>>, <<1, 7, 0, 0, 0, 0, 0, 0, 0, 0, 0, 0, 0>>,
     <<2, 1, 4, 7, 4, 8, 3, 6, 4, 7, 9, 9, 9>>,
     <<9, 2, 2, 3, 3, 7, 2, 0, 3, 6, 8, 5, 4, 7, 7, 5, 8, 0, 7>>,
     <<9, 2, 2, 3, 3, 7, 2, 0, 3, 6, 8, 5, 4, 7, 7, 5, 8, 0, 8>>,
     <<9, 2, 2, 3, 3, 7, 2, 0, 3, 6, 8, 5, 4, 7, 7, 5, 8, 0, 9>>}
WideNumerals == {[neg |-> s, digits |-> ds] : s \in BOOLEAN, ds \in WideMagnitudes}
\* str::parse::<i64> and serde_json::Number::as_i64: None for a text that is
\* no numeral of an i64.
parse_i64(s) ==
    IF \E n \in 0 - MaxNumeral .. MaxNumeral : ToString(n) = s
    THEN Some(I64(CHOOSE n \in 0 - MaxNumeral .. MaxNumeral : ToString(n) = s))
    ELSE IF \E w \in WideNumerals : InI64(w) /\ I64Text(w) = s
    THEN Some(CHOOSE w \in WideNumerals : InI64(w) /\ I64Text(w) = s)
    ELSE None

\* bool::to_string
BoolToString(b) == IF b THEN "true" ELSE "false"

\* ------------------------------------------------------------------------
\* Users (models.rs, StatsigUser).

StatsigUserNew(user_id, tier) ==
    [user_id |-> user_id, email |-> None, ip |-> None, user_agent |-> None,
     country |-> None, locale |-> None, app_version |-> None, custom |-> None,
     private_atributes |-> None, custom_ids |-> None,
     statsig_environment |-> [tier |-> tier]]

\* ASCII lowercase of the identifier-type and field labels the model uses.
to_ascii_lowercase(s) ==
    CASE s = "userID" -> "userid"
      [] s = "Email" -> "email"
      [] s = "stableID" -> "stableid"
      [] s = "E@X" -> "e@x"
      [] s = "ABC" -> "abc"
      [] s = "Plan" -> "plan"
      [] OTHER -> s

get_unit_id(user, id_type) ==
    IF to_ascii_lowercase(id_type) = "userid" THEN user.user_id
    ELSE IF IsSome(user.custom_ids) /\ id_type \in DOMAIN Unwrap(user.custom_ids)
         THEN Unwrap(user.custom_ids)[id_type]
    ELSE IF IsSome(user.custom_ids)
            /\ to_ascii_lowercase(id_type) \in DOMAIN Unwrap(user.custom_ids)
         THEN Unwrap(user.custom_ids)[to_ascii_lowercase(id_type)]
    ELSE user.user_id

OptOr(o, d) == IF IsSome(o) THEN Unwrap(o) ELSE d

MapGet2(mo, field) ==
    IF field \in DOMAIN mo THEN mo[field]
    ELSE IF to_ascii_lowercase(field) \in DOMAIN mo THEN mo[to_ascii_lowercase(field)]
    ELSE ""

get_field(user, field) ==
    LET f == to_ascii_lowercase(field) IN
    CASE f \in {"userid", "user_id"} -> user.user_id
      [] f = "email" -> OptOr(user.email, "")
      [] f \in {"ip", "ipaddress", "ip_address"} -> OptOr(user.ip, "")
      [] f \in {"useragent", "user_agent"} -> OptOr(user.user_agent, "")
      [] f = "country" -> OptOr(user.country, "")
      [] f = "locale" -> OptOr(user.locale, "")
      [] f \in {"appversion", "app_version"} -> OptOr(user.app_version, "")
      [] OTHER ->
           IF IsSome(user.custom) THEN MapGet2(Unwrap(user.custom), field)
           ELSE IF IsSome(user.private_atributes)
                THEN MapGet2(Unwrap(user.private_atributes), field)
           ELSE ""

environment_get_field(env, field) ==
    IF to_ascii_lowercase(field) = "tier" THEN env.tier ELSE ""

\* ------------------------------------------------------------------------
\* Hashing (getters.rs, get_hash): the first eight bytes of SHA-256, read
\* big-endian.  The table holds the true digests' first eight bytes for the
\* strings the model hashes; the 64-bit value is kept as its bytes, and the
\* remainders the code takes are computed from them.

Sha256First8(s) ==
    CASE s = "sA.ra1.u1" -> <<86, 253, 201, 10, 31, 72, 44, 251>>
      [] s = "sA.ra1.u2" -> <<16, 191, 146, 151, 120, 250, 216, 61>>
      [] s = "sA.ra2.u1" -> <<194, 253, 197, 58, 254, 217, 37, 27>>
      [] s = "sA.ra2.u2" -> <<18, 221, 147, 12, 34, 248, 51, 123>>
      [] s = "sB.rb1.u1" -> <<153, 141, 210, 220, 129, 210, 179, 161>>
      [] s = "sB.rb1.u2" -> <<119, 122, 2, 212, 200, 252, 227, 107>>
      [] s = "sB.rb2.u1" -> <<155, 14, 190, 218, 167, 188, 75, 187>>
      [] s = "sB.rb2.u2" -> <<0, 108, 238, 187, 123, 179, 18, 128>>
      [] s = "sF.rf1.u1" -> <<41, 202, 17, 181, 250, 192, 98, 224>>
      [] s = "sF.rf1.u2" -> <<27, 188, 173, 178, 183, 149, 81, 255>>
      [] s = "scfg.rc1.u1" -> <<239, 186, 48, 221, 9, 71, 128, 89>>
      [] s = "scfg.rc1.u2" -> <<181, 87, 51, 24, 130, 82, 131, 150>>
      [] s = "scfg.rc2.u1" -> <<195, 229, 213, 105, 56, 224, 254, 107>>
      [] s = "scfg.rc2.u2" -> <<63, 113, 37, 7, 6, 121, 38, 5>>
      [] s = "scfgF.rcf.u1" -> <<135, 227, 7, 77, 220, 165, 183, 178>>
      [] s = "scfgF.rcf.u2" -> <<141, 29, 103, 90, 201, 207, 101, 234>>
      [] s = "sP100.rp100.u1" -> <<91, 248, 63, 228, 182, 160, 254, 202>>
      [] s = "sP100.rp100.u2" -> <<118, 11, 32, 26, 78, 201, 77, 218>>
      [] s = "sP0.rp0.u1" -> <<235, 83, 135, 178, 61, 104, 198, 161>>
      [] s = "sP0.rp0.u2" -> <<109, 35, 4, 204, 214, 171, 229, 233>>
      [] s = "sD.rd1.u1" -> <<43, 86, 163, 242, 238, 106, 80, 183>>
      [] s = "sD.rd1.u2" -> <<76, 170, 111, 143, 142, 139, 61, 77>>
      [] s = "sND.rnd1.u1" -> <<116, 197, 33, 10, 41, 62, 103, 121>>
      [] s = "sND.rnd1.u2" -> <<58, 231, 56, 8, 185, 84, 69, 102>>
      [] s = "sND.rnd2.u1" -> <<162, 68, 199, 112, 58, 158, 100, 11>>
      [] s = "sND.rnd2.u2" -> <<255, 255, 189, 21, 105, 136, 174, 27>>
      [] s = "sN.rn1.u1" -> <<211, 187, 21, 65, 0, 185, 13, 236>>
      [] s = "sN.rn1.u2" -> <<27, 207, 57, 243, 34, 32, 244, 170>>
      [] s = "sN.rn2.u1" -> <<229, 108, 222, 135, 81, 232, 138, 142>>
      [] s = "sN.rn2.u2" -> <<44, 239, 211, 237, 178, 71, 79, 8>>
      [] s = "sR.rr1.u1" -> <<48, 41, 48, 94, 137, 196, 101, 245>>
      [] s = "sR.rr1.u2" -> <<24, 217, 220, 232, 98, 169, 24, 46>>
      [] s = "sR.rr2.u1" -> <<231, 173, 172, 134, 177, 154, 126, 152>>
      [] s = "sR.rr2.u2" -> <<123, 33, 84, 46, 86, 55, 208, 51>>
      [] s = "sR.rr3.u1" -> <<47, 129, 145, 163, 60, 99, 125, 189>>
      [] s = "sR.rr3.u2" -> <<217, 1, 52, 172, 179, 168, 28, 209>>
      [] s = "sDC.rdc1.u1" -> <<61, 151, 16, 254, 198, 142, 66, 3>>
      [] s = "sDC.rdc1.u2" -> <<198, 183, 23, 35, 13, 100, 216, 216>>
      [] s = "sNC.rnc1.u1" -> <<96, 190, 161, 124, 85, 156, 124, 35>>
      [] s = "sNC.rnc1.u2" -> <<102, 20, 216, 123, 194, 4, 198, 130>>
      [] s = "sAA.raa1.u1" -> <<214, 21, 21, 47, 124, 43, 189, 169>>
      [] s = "sAA.raa1.u2" -> <<214, 222, 24, 254, 46, 113, 237, 178>>
      [] s = "sM1.rm1.u1" -> <<134, 96, 85, 24, 35, 4, 197, 161>>
      [] s = "sM1.rm1.u2" -> <<182, 4, 104, 41, 111, 75, 242, 118>>
      [] s = "sM2.rm2.u1" -> <<21, 172, 73, 185, 212, 79, 202, 78>>
      [] s = "sM2.rm2.u2" -> <<62, 157, 55, 193, 11, 243, 126, 128>>
      [] s = "sT1.rt1.u1" -> <<86, 34, 130, 228, 196, 239, 57, 106>>
      [] s = "sT1.rt1.u2" -> <<131, 124, 251, 234, 77, 227, 52, 42>>
      [] s = "sT2.rt2.u1" -> <<175, 80, 215, 196, 121, 164, 128, 102>>
      [] s = "sT2.rt2.u2" -> <<222, 138, 191, 80, 159, 116, 87, 107>>
      [] s = "sT3.rt3.u1" -> <<83, 183, 169, 52, 250, 99, 237, 167>>
      [] s = "sT3.rt3.u2" -> <<123, 149, 41, 173, 160, 174, 22, 210>>
      [] s = "sT4.rt4.u1" -> <<188, 186, 112, 6, 65, 59, 209, 212>>
      [] s = "sT4.rt4.u2" -> <<117, 124, 202, 7, 90, 66, 73, 9>>
      [] s = "sPP.rpp1.u1" -> <<193, 217, 12, 34, 152, 239, 33, 16>>
      [] s = "sPP.rpp1.u2" -> <<199, 191, 59, 170, 34, 169, 48, 201>>
      [] s = "sPN.rpn1.u1" -> <<62, 60, 42, 216, 254, 4, 4, 8>>
      [] s = "sPN.rpn1.u2" -> <<209, 230, 57, 86, 78, 211, 121, 223>>
      [] s = "sFP.rfp1.u1" -> <<217, 201, 150, 174, 230, 206, 149, 218>>
      [] s = "sFP.rfp1.u2" -> <<58, 49, 137, 46, 243, 83, 157, 114>>
      [] s = "sFN.rfn1.u1" -> <<137, 219, 133, 177, 35, 22, 130, 245>>
      [] s = "sFN.rfn1.u2" -> <<28, 89, 134, 158, 164, 2, 238, 119>>
      [] s = "sPD.rpd1.u1" -> <<153, 30, 33, 117, 211, 96, 84, 112>>
      [] s = "sPD.rpd1.u2" -> <<149, 27, 16, 54, 8, 72, 205, 230>>
      [] s = "sFD.rfd1.u1" -> <<192, 198, 157, 95, 73, 198, 78, 104>>
      [] s = "sFD.rfd1.u2" -> <<120, 196, 149, 54, 116, 188, 159, 246>>
      [] s = "sX.rx1.u1" -> <<144, 122, 211, 111, 15, 34, 206, 209>>
      [] s = "sX.rx1.u2" -> <<162, 255, 35, 231, 112, 134, 21, 123>>
      [] s = "sX.rx2.u1" -> <<123, 187, 54, 148, 14, 154, 221, 107>>
      [] s = "sX.rx2.u2" -> <<60, 30, 244, 39, 175, 214, 25, 175>>
      [] s = "sQ.rq1.u1" -> <<48, 213, 47, 206, 73, 19, 226, 158>>
      [] s = "sQ.rq1.u2" -> <<235, 120, 133, 172, 217, 129, 18, 247>>
      [] s = "sQ.rq2.u1" -> <<39, 79, 93, 26, 240, 173, 16, 247>>
      [] s = "sQ.rq2.u2" -> <<223, 151, 28, 241, 162, 39, 101, 120>>
      [] s = "sQ.rq3.u1" -> <<6, 119, 30, 174, 252, 146, 175, 29>>
      [] s = "sQ.rq3.u2" -> <<132, 244, 57, 58, 151, 79, 67, 119>>
      [] s = "sQN.rqn1.u1" -> <<246, 58, 36, 146, 218, 182, 27, 110>>
      [] s = "sQN.rqn1.u2" -> <<229, 178, 159, 195, 30, 2, 83, 221>>
      [] s = "sQF.rqf1.u1" -> <<54, 54, 148, 245, 119, 203, 102, 166>>
      [] s = "sQF.rqf1.u2" -> <<21, 92, 2, 15, 121, 232, 176, 165>>
      [] s = "sQF.rqf2.u1" -> <<168, 247, 201, 242, 144, 96, 156, 164>>
      [] s = "sQF.rqf2.u2" -> <<84, 204, 123, 45, 59, 53, 78, 250>>
      [] s = "sUK.ruk1.u1" -> <<240, 122, 64, 93, 13, 230, 138, 36>>
      [] s = "sUK.ruk1.u2" -> <<50, 159, 29, 206, 8, 122, 83, 74>>
      [] s = "sPUK.rpuk1.u1" -> <<45, 118, 222, 183, 172, 86, 81, 145>>
      [] s = "sPUK.rpuk1.u2" -> <<184, 131, 142, 170, 41, 92, 240, 130>>
      [] s = "sUKC.rukc1.u1" -> <<201, 89, 123, 205, 178, 219, 223, 44>>
      [] s = "sUKC.rukc1.u2" -> <<56, 206, 65, 223, 138, 136, 114, 106>>
      [] s = "sdispatch.rdr.u1" -> <<22, 134, 137, 62, 159, 54, 145, 75>>
      [] s = "sdispatch.rdr.u2" -> <<143, 84, 221, 76, 78, 124, 224, 105>>
      [] s = "sTM.rtm1.u1" -> <<83, 8, 140, 82, 28, 76, 226, 19>>
      [] s = "sTM.rtm1.u2" -> <<31, 247, 76, 116, 217, 37, 1, 157>>
      [] s = "sTN.rtn1.u1" -> <<152, 70, 162, 83, 31, 54, 54, 30>>
      [] s = "sTN.rtn1.u2" -> <<112, 162, 75, 111, 169, 106, 170, 9>>

RECURSIVE BytesMod(_, _, _, _)
BytesMod(bytes, i, acc, m) ==
    IF i > Len(bytes) THEN acc
    ELSE BytesMod(bytes, i + 1, (acc * 256 + bytes[i]) % m, m)

\* get_hash: the u64, kept as its eight bytes, most significant first.
get_hash(s) == Sha256First8(s)

\* hash % m for a u64 kept as its bytes.
U64Mod(hash, m) == BytesMod(hash, 1, 0, m)

\* get_hash(s) % m
get_hash_mod(s, m) == U64Mod(get_hash(s), m)

\* As if the comparison of the bucket with the percentage were not strict.
BucketPassesInclusive(hash, pass_percentage) ==
    U64Mod(hash, 10000) <= pass_percentage * 100

\* eval_pass_percent on the hash: (hash % 10000) < pass_percentage * 100.
BucketPasses(hash, pass_percentage) == U64Mod(hash, 10000) < pass_percentage * 100

\* The value of a user_bucket condition on the hash: hash % 1000.
user_bucket(hash) == U64Mod(hash, 1000)

\* ------------------------------------------------------------------------
\* Value getters (getters.rs).

\* get_string returns a String for every value; the evaluator's callers treat
\* it as an Option, which is then always Some.
get_string(v) ==
    CASE v.t \in {"null", "array", "object"} -> ""
      [] OTHER -> v.v

i32_MAX == 2147483647

\* get_unix_epoch: a value above i32::MAX is taken for milliseconds.
get_unix_epoch(v) ==
    LET val == CASE v.t \in {"number", "string"} -> OptOr(parse_i64(v.v), I64(0))
                 [] OTHER -> I64(0)
    IN IF I64Less(I64(i32_MAX), val) THEN I64Div1000(val) ELSE val

\* ------------------------------------------------------------------------
\* Evaluation results (evaluator/models.rs, EvalResult).

EvalResultNew(pass, fetch_from_server) ==
    [pass |-> pass, fetch_from_server |-> fetch_from_server, config_value |-> None,
     id |-> "default", secondary_exposures |-> <<>>, group |-> "default",
     group_name |-> Some("default"), rule_id |-> "default"]

EvalResultPass == EvalResultNew(TRUE, FALSE)
EvalResultFail == EvalResultNew(FALSE, FALSE)
EvalResultFetchFromServer == EvalResultNew(FALSE, TRUE)

\* getters.rs, get_config_value
get_config_value(v, config_type) ==
    IF config_type = "dynamic_config" THEN Some(v) ELSE None

\* ------------------------------------------------------------------------
\* Specs, rules and conditions (evaluator/models.rs).

Condition(type, operator, field, target_value) ==
    [type |-> type, operator |-> operator, field |-> field,
     target_value |-> target_value, additional_values |-> None, id_type |-> "userID"]

Rule(id, pass_percentage, conditions, return_value) ==
    [name |-> id \o "_name", id |-> id, salt |-> "r" \o id,
     pass_percentage |-> pass_percentage, conditions |-> conditions,
     return_value |-> return_value, id_type |-> "userID",
     group_name |-> Some(id \o "_group")]

ConfigSpec(name, type, enabled, rules, default_value) ==
    [name |-> name, type |-> type, salt |-> "s" \o name, enabled |-> enabled,
     rules |-> rules, default_value |-> default_value, id_type |-> Some("userID")]

ConfigData(dynamic_configs, feature_gates, has_updates, time) ==
    [dynamic_configs |-> dynamic_configs, feature_gates |-> feature_gates,
     layer_configs |-> None, has_updates |-> has_updates, time |-> time]

CondPublic == Condition("public", None, None, None)
CondPassGate(g) == Condition("pass_gate", None, None, Some(JStr(g)))
CondFailGate(g) == Condition("fail_gate", None, None, Some(JStr(g)))
CondEmailEq(s) == Condition("user_field", Some("eq"), Some("email"), Some(JStr(s)))
CondEmailMatches == Condition("user_field", Some("str_matches"), Some("email"), Some(JStr(".*")))

\* The catalogs the control plane serves in the model.  Gate A refers to gate
\* B, config "cfg" refers to gate A; the two versions differ in every spec, so
\* that a decision mixing them is a decision neither version gives.
GateB1 == ConfigSpec("B", "feature_gate", TRUE,
                     Some(<<Rule("b1", 100, <<CondPublic>>, JBool(TRUE))>>), JBool(FALSE))
GateB2 == ConfigSpec("B", "feature_gate", TRUE,
                     Some(<<Rule("b2", 0, <<CondPublic>>, JBool(TRUE))>>), JBool(FALSE))
GateA1 == ConfigSpec("A", "feature_gate", TRUE,
                     Some(<<Rule("a1", 100, <<CondPassGate("B")>>, JBool(TRUE))>>), JBool(FALSE))
GateA2 == ConfigSpec("A", "feature_gate", TRUE,
                     Some(<<Rule("a2", 100, <<CondFailGate("B")>>, JBool(TRUE))>>), JBool(FALSE))
GateF == ConfigSpec("F", "feature_gate", TRUE,
                    Some(<<Rule("f1", 100, <<CondEmailMatches>>, JBool(TRUE))>>), JBool(FALSE))
Cfg1 == ConfigSpec("cfg", "dynamic_config", TRUE,
                   Some(<<Rule("c1", 100, <<CondPassGate("A"), CondEmailEq("e@x")>>, JObj("ONE"))>>),
                   JStr("plain"))
Cfg2 == ConfigSpec("cfg", "dynamic_config", TRUE,
                   Some(<<Rule("c2", 100, <<CondPassGate("A"), CondFailGate("B")>>, JObj("TWO"))>>),
                   JObj("DEFAULT"))
CfgF == ConfigSpec("cfgF", "dynamic_config", TRUE,
                   Some(<<Rule("cf", 100, <<CondPassGate("F")>>, JObj("F"))>>), JNull)

Catalog1 == ConfigData(Some(<<Cfg1, CfgF>>), Some(<<GateA1, GateB1, GateF>>), TRUE, Some(5))
Catalog2 == ConfigData(Some(<<Cfg2>>), Some(<<GateA2, GateB2>>), TRUE, Some(9))
\* What the control plane answers when nothing changed.
CatalogNoUpdates == ConfigData(None, None, FALSE, None)

ServerCatalogs == {Catalog1, Catalog2, CatalogNoUpdates}

\* A catalog for the evaluator's cases.  Gates P100 and P0 have one public
\* rule each, passing every and no bucket; D is disabled, and its rule would
\* look P100 up if it were evaluated; ND and N refer to other gates, and no
\* rule of N matches; E has no rules.  Config R has a rule on the email (as
\* tests/dynamic_config.rs has), then a public rule that passes no bucket,
\* then a rule that would look P100 up; DC is disabled; no rule of NC
\* matches; EC has an empty list of rules.
GateP100 == ConfigSpec("P100", "feature_gate", TRUE,
                       Some(<<Rule("p100", 100, <<CondPublic>>, JBool(TRUE))>>), JBool(FALSE))
GateP0 == ConfigSpec("P0", "feature_gate", TRUE,
                     Some(<<Rule("p0", 0, <<CondPublic>>, JBool(TRUE))>>), JBool(FALSE))
GateD == ConfigSpec("D", "feature_gate", FALSE,
                    Some(<<Rule("d1", 100, <<CondPassGate("P100")>>, JBool(TRUE))>>), JBool(FALSE))
GateND == ConfigSpec("ND", "feature_gate", TRUE,
                     Some(<<Rule("nd1", 100, <<CondPassGate("D")>>, JBool(TRUE)),
                            Rule("nd2", 100, <<CondFailGate("D"), CondPassGate("P100")>>,
                                 JBool(TRUE))>>),
                     JBool(FALSE))
GateN == ConfigSpec("N", "feature_gate", TRUE,
                    Some(<<Rule("n1", 100, <<CondFailGate("P100"), CondPublic>>, JBool(TRUE)),
                           Rule("n2", 100, <<CondPassGate("P0")>>, JBool(TRUE))>>),
                    JBool(FALSE))
GateE == ConfigSpec("E", "feature_gate", TRUE, None, JBool(FALSE))
CfgR == ConfigSpec("R", "dynamic_config", TRUE,
                   Some(<<Rule("r1", 100, <<CondEmailEq("e@x")>>, JObj("R1")),
                          Rule("r2", 0, <<CondPublic>>, JObj("R2")),
                          Rule("r3", 100, <<CondPassGate("P100")>>, JObj("R3"))>>),
                   JObj("RD"))
CfgDC == ConfigSpec("DC", "dynamic_config", FALSE,
                    Some(<<Rule("dc1", 100, <<CondPassGate("P100")>>, JObj("DC1"))>>),
                    JObj("DCD"))
CfgNC == ConfigSpec("NC", "dynamic_config", TRUE,
                    Some(<<Rule("nc1", 100, <<CondPassGate("P0"), CondFailGate("D")>>,
                                JObj("NC1"))>>),
                    JObj("NCD"))
CfgEC == ConfigSpec("EC", "dynamic_config", TRUE, Some(<<>>), JObj("ECD"))

\* A catalog for the conditions that refer to gates.  PP, PN, FP, FN, PD, FD,
\* M1 and M2 have one pass_gate or fail_gate condition each, on a gate that
\* passes (P100), fails (P0), is disabled (D) or is missing (zz); T1 to T4 name
\* no gate or name it by a number; AA refers to A, which refers to B.  The
\* first rule of X fails, the second passes; the second rule of Q and the
\* first of QF need the server; UK and UKC are of the type unknown.
CondGate(type, target) == Condition(type, None, None, target)
OneCondition(name, id, c) ==
    ConfigSpec(name, "feature_gate", TRUE, Some(<<Rule(id, 100, <<c>>, JBool(TRUE))>>),
               JBool(FALSE))
GateAA == OneCondition("AA", "aa1", CondPassGate("A"))
GatePP == OneCondition("PP", "pp1", CondPassGate("P100"))
GatePN == OneCondition("PN", "pn1", CondPassGate("P0"))
GateFP == OneCondition("FP", "fp1", CondFailGate("P100"))
GateFN == OneCondition("FN", "fn1", CondFailGate("P0"))
GatePD == OneCondition("PD", "pd1", CondPassGate("D"))
GateFD == OneCondition("FD", "fd1", CondFailGate("D"))
GateM1 == OneCondition("M1", "m1", CondPassGate("zz"))
GateM2 == OneCondition("M2", "m2", CondFailGate("zz"))
GateT1 == OneCondition("T1", "t1", CondGate("pass_gate", None))
GateT2 == OneCondition("T2", "t2", CondGate("pass_gate", Some(JNum(5))))
GateT3 == OneCondition("T3", "t3", CondGate("fail_gate", None))
GateT4 == OneCondition("T4", "t4", CondGate("fail_gate", Some(JNum(5))))
GateX == ConfigSpec("X", "feature_gate", TRUE,
                    Some(<<Rule("x1", 100, <<CondPassGate("P0"), CondGate("pass_gate", None)>>,
                                JBool(TRUE)),
                           Rule("x2", 100, <<CondPassGate("AA"), CondFailGate("P0")>>,
                                JBool(TRUE))>>),
                    JBool(FALSE))
GateQ == ConfigSpec("Q", "feature_gate", TRUE,
                    Some(<<Rule("q1", 100, <<CondPassGate("P0")>>, JBool(TRUE)),
                           Rule("q2", 100, <<CondPassGate("P100"), CondEmailMatches>>,
                                JBool(TRUE)),
                           Rule("q3", 100, <<CondPassGate("B")>>, JBool(TRUE))>>),
                    JBool(FALSE))
GateQN == ConfigSpec("QN", "feature_gate", TRUE,
                     Some(<<Rule("qn1", 100, <<CondPassGate("P100"), CondPassGate("Q")>>,
                                 JBool(TRUE))>>),
                     JBool(FALSE))
GateQF == ConfigSpec("QF", "feature_gate", TRUE,
                     Some(<<Rule("qf1", 100, <<CondEmailMatches>>, JBool(TRUE)),
                            Rule("qf2", 100, <<CondPassGate("B")>>, JBool(TRUE))>>),
                     JBool(FALSE))
GateUK == ConfigSpec("UK", "unknown", TRUE,
                     Some(<<Rule("uk1", 100, <<CondPublic>>, JBool(TRUE))>>), JBool(FALSE))
GatePUK == OneCondition("PUK", "puk1", CondPassGate("UK"))
CfgUKC == ConfigSpec("UKC", "unknown", TRUE,
                     Some(<<Rule("ukc1", 100, <<CondPublic>>, JObj("UK1"))>>), JObj("UKD"))

CatalogCond ==
    ConfigData(Some(<<CfgUKC>>),
               Some(<<GateP100, GateP0, GateD, GateB1, GateA1, GateAA, GatePP, GatePN, GateFP,
                      GateFN, GatePD, GateFD, GateM1, GateM2, GateT1, GateT2, GateT3, GateT4,
                      GateX, GateQ, GateQN, GateQF, GateUK, GatePUK>>),
               TRUE, Some(5))

\* A catalog for the dispatch of eval_condition: one gate for each condition
\* type that looks at no value with each operator (and with none), and one
\* for each type that extracts a value with each operator the evaluator
\* leaves to the server (and with none).  Each gate has one rule of one
\* condition; they share their salts, so that one bucket serves them all.
OperatorTypes ==
    <<"gt", "gte", "lt", "lte", "version_gt", "version_gte", "version_lt", "version_lte",
      "version_eq", "version_neq", "any", "none", "any_case_sensitive",
      "none_case_sensitive", "str_starts_with_any", "str_ends_with_any", "str_contains_any",
      "str_contains_none", "str_matches", "eq", "neq", "before", "after", "on",
      "in_segment_list", "not_in_segment_list", "unknown">>
ServerOperatorTypes ==
    <<"str_starts_with_any", "str_ends_with_any", "str_contains_any", "str_contains_none",
      "str_matches", "in_segment_list", "not_in_segment_list", "unknown">>
ValuelessTypes == <<"public", "ip_based", "ua_based", "unknown">>
ValueTypes == <<"user_field", "environment_field", "current_time", "user_bucket", "unit_id">>

DispatchName(type, operator) == type \o "/" \o OptOr(operator, "missing")
DispatchGate(type, operator) ==
    [ConfigSpec(DispatchName(type, operator), "feature_gate", TRUE,
                Some(<<Rule("dr", 100, <<Condition(type, operator, None, None)>>,
                            JBool(TRUE))>>),
                JBool(FALSE))
     EXCEPT !.salt = "sdispatch"]

\* The gates of every type of `types` with every operator of `operators`, and
\* with no operator.
DispatchGates(types, operators) ==
    LET n == Len(operators) + 1
        OperatorAt(k) == IF k > Len(operators) THEN None ELSE Some(operators[k])
    IN [k \in 1 .. (Len(types) * n) |->
           DispatchGate(types[((k - 1) \div n) + 1], OperatorAt(((k - 1) % n) + 1))]

CatalogDispatch ==
    ConfigData(None,
               Some(DispatchGates(ValuelessTypes, OperatorTypes)
                    \o DispatchGates(ValueTypes, ServerOperatorTypes)),
               TRUE, Some(5))

\* A catalog for the membership operators: one gate for every value type
\* (a user field, which is a string, and the current time, which is a
\* number), operator and target.
MembershipOperators == <<"any", "none", "any_case_sensitive", "none_case_sensitive">>
MembershipTypes == <<"user_field", "current_time">>
MembershipTargets ==
    <<[label |-> "ABC", target_value |-> Some(JArr(<<JStr("ABC")>>))],
      [label |-> "zz,abc", target_value |-> Some(JArr(<<JStr("zz"), JStr("abc")>>))],
      [label |-> "abc", target_value |-> Some(JStr("abc"))],
      [label |-> "missing", target_value |-> None],
      [label |-> "empty", target_value |-> Some(JArr(<<>>))],
      [label |-> "number", target_value |-> Some(JArr(<<JNum(1)>>))],
      [label |-> "numeral", target_value |-> Some(JArr(<<JStr("1")>>))]>>

MembershipName(type, operator, label) == type \o "/" \o operator \o "/" \o label
MembershipGate(type, operator, tg) ==
    [ConfigSpec(MembershipName(type, operator, tg.label), "feature_gate", TRUE,
                Some(<<Rule("dr", 100,
                            <<Condition(type, Some(operator),
                                        IF type = "user_field" THEN Some("email") ELSE None,
                                        tg.target_value)>>,
                            JBool(TRUE))>>),
                JBool(FALSE))
     EXCEPT !.salt = "sdispatch"]

MembershipGates ==
    LET no == Len(MembershipOperators)
        nt == Len(MembershipTargets)
    IN [k \in 1 .. (Len(MembershipTypes) * no * nt) |->
           MembershipGate(MembershipTypes[((k - 1) \div (no * nt)) + 1],
                          MembershipOperators[(((k - 1) \div nt) % no) + 1],
                          MembershipTargets[((k - 1) % nt) + 1])]

CatalogMembership == ConfigData(None, Some(MembershipGates), TRUE, Some(5))

\* A catalog for eq and neq: one gate for every kind of value (a user field,
\* which is a string, the current time, which is a number, and the bucket of
\* a condition without salt, which is null), operator and target.
EqualityOperators == <<"eq", "neq">>
EqualityTypes == <<"user_field", "current_time", "user_bucket">>
EqualityTargets ==
    <<[label |-> "abc", target_value |-> Some(JStr("abc"))],
      [label |-> "numeral", target_value |-> Some(JStr("1"))],
      [label |-> "blank", target_value |-> Some(JStr(""))],
      [label |-> "missing", target_value |-> None],
      [label |-> "array", target_value |-> Some(JArr(<<JStr("abc")>>))],
      [label |-> "number", target_value |-> Some(JNum(1))]>>

EqualityGates ==
    LET no == Len(EqualityOperators)
        nt == Len(EqualityTargets)
    IN [k \in 1 .. (Len(EqualityTypes) * no * nt) |->
           MembershipGate(EqualityTypes[((k - 1) \div (no * nt)) + 1],
                          EqualityOperators[(((k - 1) \div nt) % no) + 1],
                          EqualityTargets[((k - 1) % nt) + 1])]

CatalogEquality == ConfigData(None, Some(EqualityGates), TRUE, Some(5))

\* A catalog for eval_rule: gates P100, P0 and F, and one gate for every
\* pair of the conditions below, with one rule that holds the pair.
RuleParts ==
    <<[label |-> "public", condition |-> CondPublic],
      [label |-> "email", condition |-> CondEmailEq("e@x")],
      [label |-> "matches", condition |-> CondEmailMatches],
      [label |-> "P100", condition |-> CondPassGate("P100")],
      [label |-> "P0", condition |-> CondPassGate("P0")],
      [label |-> "notP0", condition |-> CondFailGate("P0")],
      [label |-> "F", condition |-> CondPassGate("F")]>>

PairName(p, q) == p.label \o "+" \o q.label
PairGate(p, q) ==
    [ConfigSpec(PairName(p, q), "feature_gate", TRUE,
                Some(<<Rule("dr", 100, <<p.condition, q.condition>>, JBool(TRUE))>>),
                JBool(FALSE))
     EXCEPT !.salt = "sdispatch"]

PairGates ==
    LET n == Len(RuleParts)
    IN [k \in 1 .. (n * n) |-> PairGate(RuleParts[((k - 1) \div n) + 1],
                                         RuleParts[((k - 1) % n) + 1])]

CatalogRule ==
    ConfigData(None, Some(<<GateP100, GateP0, GateF>> \o PairGates), TRUE, Some(5))

\* A catalog for the server fallback behind gate references: gate F needs
\* the server; K1 .. K5 reach it through one to five references, some beside
\* a condition on P100 or P0; L1 and L2 reach no gate that needs the server.
ListGate(name, conditions) ==
    [ConfigSpec(name, "feature_gate", TRUE,
                Some(<<Rule("dr", 100, conditions, JBool(TRUE))>>), JBool(FALSE))
     EXCEPT !.salt = "sdispatch"]

DepthGates ==
    <<ListGate("K1", <<CondPassGate("P100"), CondPassGate("F")>>),
      ListGate("K2", <<CondPassGate("K1")>>),
      ListGate("K3", <<CondPassGate("P0"), CondFailGate("K2")>>),
      ListGate("K4", <<CondFailGate("K3"), CondPassGate("P100")>>),
      ListGate("K5", <<CondFailGate("K4")>>),
      ListGate("KM", <<CondEmailMatches, CondPassGate("P0")>>),
      ListGate("KF", <<CondFailGate("F")>>),
      ListGate("L1", <<CondPassGate("P100")>>),
      ListGate("L2", <<CondPublic, CondFailGate("P0")>>)>>

CatalogDepth ==
    ConfigData(None, Some(<<GateP100, GateP0, GateF>> \o DepthGates), TRUE, Some(5))

\* A catalog for the wall clock: gate TM passes before the time 1, gate TN
\* refers to it.
CondTime(operator, t) == Condition("current_time", Some(operator), None, Some(JNum(t)))
GateTM == ConfigSpec("TM", "feature_gate", TRUE,
                     Some(<<Rule("tm1", 100, <<CondTime("before", 1)>>, JBool(TRUE))>>),
                     JBool(FALSE))
GateTN == ConfigSpec("TN", "feature_gate", TRUE,
                     Some(<<Rule("tn1", 100, <<CondPassGate("TM")>>, JBool(TRUE))>>),
                     JBool(FALSE))
CatalogClock == ConfigData(None, Some(<<GateTM, GateTN, GateP100>>), TRUE, Some(5))

CatalogEval ==
    ConfigData(Some(<<CfgR, CfgDC, CfgNC, CfgEC>>),
               Some(<<GateP100, GateP0, GateD, GateND, GateN, GateE>>), TRUE, Some(5))

\* Vec<ConfigSpec> -> HashMap<String, ConfigSpec> (refresh_configs): a later
\* spec of the same name replaces an earlier one.
ToMap(opt) ==
    LET xs == IF IsSome(opt) THEN Unwrap(opt) ELSE <<>>
        Last(n) == CHOOSE i \in DOMAIN xs :
                      /\ xs[i].name = n
                      /\ \A j \in DOMAIN xs : xs[j].name = n => j <= i
    IN [n \in {xs[i].name : i \in DOMAIN xs} |-> xs[Last(n)]]

\* ------------------------------------------------------------------------
\* The evaluator (evaluator/mod.rs).

\* SystemTime::now(), in seconds since the epoch: the wall clock a
\* current_time condition reads.
VARIABLE system_time

eval_pass_percent(user, rule, spec) ==
    LET rule_salt == IF rule.salt = "" THEN rule.id ELSE rule.salt
        input == spec.salt \o "." \o rule_salt \o "." \o get_unit_id(user, rule.id_type)
    IN BucketPasses(get_hash(input), rule.pass_percentage)

IsGateCondition(c) == c.type \in {"pass_gate", "fail_gate"}

\* The name a pass_gate / fail_gate condition refers to: target_value.as_str().
GateTarget(c) == as_str(OptOr(c.target_value, JNull))

\* The value a condition compares (the first match of eval_condition), for
\* the condition types that extract one.
ConditionValue(user, c) ==
    CASE c.type = "user_field" -> JStr(get_field(user, OptOr(c.field, "")))
      [] c.type = "environment_field" ->
           JStr(environment_get_field(user.statsig_environment, OptOr(c.field, "")))
      [] c.type = "unit_id" -> JStr(get_unit_id(user, c.id_type))
      [] c.type = "current_time" -> JNum(system_time)
      [] c.type = "user_bucket" ->
           IF IsSome(c.additional_values) /\ "salt" \in DOMAIN Unwrap(c.additional_values)
           THEN JNum(user_bucket(get_hash(Unwrap(c.additional_values)["salt"] \o "." \o
                                          get_unit_id(user, c.id_type))))
           ELSE JNull

\* As if eq compared the string form of the value.
OpEqStringForm(value, target_value) ==
    LET target == as_str(OptOr(target_value, JNull)) IN
    IF IsSome(target) THEN get_string(value) = Unwrap(target)
    ELSE get_string(value) = ""

\* OperatorType::Eq: a string target equals the value itself (&str ==
\* serde_json::Value); without one, the value is to be "" or null.
OpEq(value, target_value) ==
    LET target == as_str(OptOr(target_value, JNull)) IN
    IF IsSome(target) THEN value.t = "string" /\ value.v = Unwrap(target)
    ELSE (value.t = "string" /\ value.v = "") \/ value.t = "null"

\* String == serde_json::Value: a string value with that text.
StringEqValue(str, value) == value.t = "string" /\ value.v = str

\* The any of OperatorType::Any / None: some element of the target array has
\* the value's lowercased string form.
OpAny(value, target_value) ==
    LET lower_val == to_ascii_lowercase(get_string(value))
        arr == as_array(OptOr(target_value, JNull))
    IN /\ IsSome(arr)
       /\ \E i \in DOMAIN Unwrap(arr) :
             to_ascii_lowercase(get_string(Unwrap(arr)[i])) = lower_val

\* The any of OperatorType::AnyCaseSensitive / NoneCaseSensitive.
OpAnyCaseSensitive(value, target_value) ==
    LET arr == as_array(OptOr(target_value, JNull))
    IN /\ IsSome(arr)
       /\ \E i \in DOMAIN Unwrap(arr) : StringEqValue(get_string(Unwrap(arr)[i]), value)

FetchOperators ==
    {"str_starts_with_any", "str_ends_with_any", "str_contains_any",
     "str_contains_none", "str_matches", "in_segment_list", "not_in_segment_list",
     "unknown"}

\* As if the operator were matched before the condition type.
EvalLeafConditionOperatorFirst(user, c) ==
    CASE OptOr(c.operator, "unknown") \in FetchOperators -> EvalResultFetchFromServer
      [] c.type = "public" -> EvalResultPass
      [] c.type \in {"ip_based", "ua_based", "unknown"} -> EvalResultFetchFromServer
      [] OTHER -> EvalResultFail

\* eval_condition for every condition that needs no other gate.
EvalLeafCondition(user, c) ==
    CASE c.type = "public" -> EvalResultPass
      [] c.type \in {"ip_based", "ua_based", "unknown"} -> EvalResultFetchFromServer
      [] IsGateCondition(c) -> EvalResultFail    \* target_value is no string
      [] OTHER ->
           LET value == ConditionValue(user, c)
               op == OptOr(c.operator, "unknown")
           IN CASE op \in FetchOperators -> EvalResultFetchFromServer
                [] op = "eq" -> EvalResultNew(OpEq(value, c.target_value), FALSE)
                [] op = "neq" -> EvalResultNew(~OpEq(value, c.target_value), FALSE)
                [] op = "any" -> EvalResultNew(OpAny(value, c.target_value), FALSE)
                [] op = "none" -> EvalResultNew(~OpAny(value, c.target_value), FALSE)
                [] op = "any_case_sensitive" ->
                     EvalResultNew(OpAnyCaseSensitive(value, c.target_value), FALSE)
                [] op = "none_case_sensitive" ->
                     EvalResultNew(~OpAnyCaseSensitive(value, c.target_value), FALSE)
                [] op = "before" ->
                     EvalResultNew(I64Less(get_unix_epoch(value),
                                           get_unix_epoch(OptOr(c.target_value, JNull))),
                                   FALSE)
                [] op = "after" ->
                     EvalResultNew(I64Less(get_unix_epoch(OptOr(c.target_value, JNull)),
                                           get_unix_epoch(value)),
                                   FALSE)

\* As if a fail_gate condition were read as a pass_gate condition.
EvalGateConditionNeverNegated(c, gate_name, res) ==
    IF res.fetch_from_server THEN EvalResultFetchFromServer
    ELSE LET new_exposure == [gate |-> gate_name, gateValue |-> BoolToString(res.pass),
                              ruleID |-> res.id]
         IN [EvalResultNew(res.pass, FALSE) EXCEPT
                !.secondary_exposures = Append(res.secondary_exposures, new_exposure)]

\* As if the new exposure went in front of the sub-result's exposures.
EvalGateConditionExposureFirst(c, gate_name, res) ==
    IF res.fetch_from_server THEN EvalResultFetchFromServer
    ELSE LET new_exposure == [gate |-> gate_name, gateValue |-> BoolToString(res.pass),
                              ruleID |-> res.id]
             pass == (c.type = "pass_gate" /\ res.pass) \/ (c.type = "fail_gate" /\ ~res.pass)
         IN [EvalResultNew(pass, FALSE) EXCEPT
                !.secondary_exposures = <<new_exposure>> \o res.secondary_exposures]

\* As if the exposures of a condition that did not pass were dropped.
FoldConditionPassedOnly(f, res) ==
    [f EXCEPT !.ci = @ + 1,
              !.result = [@ EXCEPT
                  !.pass = @ /\ res.pass,
                  !.fetch_from_server = @ \/ res.fetch_from_server,
                  !.secondary_exposures =
                      IF res.pass THEN @ \o res.secondary_exposures ELSE @]]

\* As if a condition handed on the exposures of a referenced gate that
\* needs the server.
EvalGateConditionFetchKeepsExposures(c, gate_name, res) ==
    IF res.fetch_from_server
    THEN [EvalResultFetchFromServer EXCEPT !.secondary_exposures = res.secondary_exposures]
    ELSE LET new_exposure == [gate |-> gate_name, gateValue |-> BoolToString(res.pass),
                              ruleID |-> res.id]
             pass == (c.type = "pass_gate" /\ res.pass) \/ (c.type = "fail_gate" /\ ~res.pass)
         IN [EvalResultNew(pass, FALSE) EXCEPT
                !.secondary_exposures = Append(res.secondary_exposures, new_exposure)]

\* eval_condition for pass_gate / fail_gate, once check_gate_internal returned res.
EvalGateCondition(c, gate_name, res) ==
    IF res.fetch_from_server THEN EvalResultFetchFromServer
    ELSE LET new_exposure == [gate |-> gate_name, gateValue |-> BoolToString(res.pass),
                              ruleID |-> res.id]
             pass == (c.type = "pass_gate" /\ res.pass) \/ (c.type = "fail_gate" /\ ~res.pass)
         IN [EvalResultNew(pass, FALSE) EXCEPT
                !.secondary_exposures = Append(res.secondary_exposures, new_exposure)]

\* One activation of eval_spec: the spec it evaluates (a reference into the
\* map named `map`, kept alive by the read guard of the lookup that found it),
\* the position in its rules and conditions, `exposures` of eval_spec and
\* `result` of the running eval_rule.
NewFrame(spec, map) ==
    [spec |-> spec, map |-> map, ri |-> 1, ci |-> 1, exposures |-> <<>>,
     result |-> EvalResultPass]

RulesOf(spec) == OptOr(spec.rules, <<>>)

\* As if eval_rule stopped folding once a condition failed or asked for the
\* server.
FoldConditionShortCircuit(f, res) ==
    IF f.result.pass /\ ~f.result.fetch_from_server
    THEN [f EXCEPT !.ci = @ + 1,
                   !.result = [@ EXCEPT
                       !.pass = @ /\ res.pass,
                       !.fetch_from_server = @ \/ res.fetch_from_server,
                       !.secondary_exposures = @ \o res.secondary_exposures]]
    ELSE [f EXCEPT !.ci = @ + 1]

\* eval_rule's loop body: fold one condition's result into `result`.
FoldCondition(f, res) ==
    [f EXCEPT !.ci = @ + 1,
              !.result = [@ EXCEPT
                  !.pass = @ /\ res.pass,
                  !.fetch_from_server = @ \/ res.fetch_from_server,
                  !.secondary_exposures = @ \o res.secondary_exposures]]

\* As if the result that needs the server took the exposures of the earlier
\* rules along.
FetchResultWithExposures(exposures, res) ==
    [res EXCEPT !.secondary_exposures = exposures \o @]

\* What eval_spec returns for a rule that needs the server: `return res`, the
\* rule's result; `exposures` of the earlier rules is dropped.
FetchResult(exposures, res) == res

\* As if a failed bucket kept the rule's id as the rule id of the result.
RuleDecisionKeepsRuleId(user, rule, spec, exposures) ==
    LET pass == eval_pass_percent(user, rule, spec) IN
    [pass |-> pass, fetch_from_server |-> FALSE, id |-> rule.id,
     secondary_exposures |-> exposures,
     config_value |-> IF pass THEN get_config_value(rule.return_value, spec.type)
                      ELSE get_config_value(spec.default_value, spec.type),
     group |-> IF pass THEN rule.name ELSE "default",
     group_name |-> IF pass THEN rule.group_name ELSE Some("default"),
     rule_id |-> rule.id]

\* What eval_spec returns for a rule whose conditions all passed.
RuleDecision(user, rule, spec, exposures) ==
    LET pass == eval_pass_percent(user, rule, spec) IN
    [pass |-> pass, fetch_from_server |-> FALSE, id |-> rule.id,
     secondary_exposures |-> exposures,
     config_value |-> IF pass THEN get_config_value(rule.return_value, spec.type)
                      ELSE get_config_value(spec.default_value, spec.type),
     group |-> IF pass THEN rule.name ELSE "default",
     group_name |-> IF pass THEN rule.group_name ELSE Some("default"),
     rule_id |-> IF pass THEN rule.id ELSE "default"]

\* As if a disabled spec gave the plain failure.
DisabledAsDefault == EvalResultFail

\* eval_spec for a spec that is not enabled.
DisabledResult == [EvalResultFail EXCEPT !.id = "disabled"]

\* As if the result for no matching rule forgot the exposures.
NoRuleResultWithoutExposures(spec, exposures) ==
    [EvalResultFail EXCEPT !.config_value = get_config_value(spec.default_value, spec.type)]

NoRuleResult(spec, exposures) ==
    [EvalResultFail EXCEPT !.secondary_exposures = exposures,
                           !.config_value = get_config_value(spec.default_value, spec.type)]

Top(st) == st[Len(st)]
Pop(st) == SubSeq(st, 1, Len(st) - 1)
SetTop(st, f) == [st EXCEPT ![Len(st)] = f]

\* An evaluation runs on the caller's thread without suspending; it can only
\* wait for a read lock.  Continue runs the activation on top of the stack up
\* to the next check_gate_internal of a pass_gate / fail_gate condition (where
\* the stack is returned as it stands) or to the end of the evaluation;
\* Return hands a finished result to the activation below.
RECURSIVE Continue(_, _), Return(_, _, _)
Continue(user, st) ==
    LET f == Top(st)
        rules == RulesOf(f.spec)
    IN IF f.ri > Len(rules) THEN Return(user, Pop(st), NoRuleResult(f.spec, f.exposures))
       ELSE LET rule == rules[f.ri] IN
            IF f.ci > Len(rule.conditions)
            THEN IF f.result.fetch_from_server
                 THEN Return(user, Pop(st), FetchResult(f.exposures, f.result))
                 ELSE LET exposures == f.exposures \o f.result.secondary_exposures IN
                      IF f.result.pass
                      THEN Return(user, Pop(st), RuleDecision(user, rule, f.spec, exposures))
                      ELSE Continue(user, SetTop(st, [f EXCEPT !.ri = @ + 1, !.ci = 1,
                                                               !.exposures = exposures,
                                                               !.result = EvalResultPass]))
            ELSE LET c == rule.conditions[f.ci] IN
                 IF IsGateCondition(c) /\ IsSome(GateTarget(c))
                 THEN [stack |-> st, done |-> FALSE, res |-> EvalResultFail]
                 ELSE Continue(user, SetTop(st, FoldCondition(f, EvalLeafCondition(user, c))))

Return(user, st, res) ==
    IF st = <<>> THEN [stack |-> st, done |-> TRUE, res |-> res]
    ELSE LET f == Top(st)
             c == RulesOf(f.spec)[f.ri].conditions[f.ci]
         IN Continue(user, SetTop(st, FoldCondition(f,
                EvalGateCondition(c, Unwrap(GateTarget(c)), res))))

\* eval_spec entered for a spec just found in `map`.
EnterSpec(user, st, spec, map) ==
    IF ~spec.enabled THEN Return(user, st, DisabledResult)
    ELSE Continue(user, Append(st, NewFrame(spec, map)))

\* check_gate_internal / get_dynamic_config_internal: the lookup in the map
\* `specs` (named `map`) under its read guard, then eval_spec.
Lookup(user, st, specs, map, name) ==
    IF name \in DOMAIN specs THEN EnterSpec(user, st, specs[name], map)
    ELSE Return(user, st, EvalResultFail)

\* The name the next lookup of an evaluation asks for, and the map it reads.
PendingName(st, top_name) ==
    IF st = <<>> THEN top_name
    ELSE Unwrap(GateTarget(RulesOf(Top(st).spec)[Top(st).ri].conditions[Top(st).ci]))
PendingMap(st, top_map) == IF st = <<>> THEN top_map ELSE "gates"

\* ------------------------------------------------------------------------
\* State.

Callers == {"c1", "c2"}
MapNames == {"dynamic_configs", "gates", "layer_configs"}

VARIABLES
    disable_cache,    \* Client.disable_cache (StatsigOptions.disable_cache)
    client,           \* Client::new: "new" before it ran, then "ready" or "failed";
                      \* "dropped" once the caller has dropped its Arc<Client>
    dynamic_configs,  \* Evaluator.dynamic_configs
    gates,            \* Evaluator.gates
    layer_configs,    \* Evaluator.layer_configs
    rlock,            \* read guards held on each map, per caller
    wlock,            \* whether refresh_configs holds the write guard of each map
    event_logs,       \* Client.event_logs
    logs_mutex,       \* the holder of the event_logs mutex
    pc,               \* where each caller is in its call
    call,             \* each caller's current (or last) call
    stack,            \* each caller's eval_spec activations
    poll,             \* the poll_for_changes task
    tasks,            \* the flush tasks: tasks[1] is background_logs_flush,
                      \* the others are the flush_logs tasks spawned on the threshold
    next_seq,         \* history: events enqueued so far
    drained,          \* history: the batches taken from the queue, in order
    posted,           \* history: the log_event POSTs, in order of completion
    installed,        \* history: the catalogs given to refresh_configs
    calls_left,       \* calls the callers may still start
    fetches_left,     \* ticks the refresh timer may still make
    ticks_left,       \* ticks the flush timer may still make
    probe             \* a hash under the bucket computations, apart from any client

vars == <<disable_cache, client, dynamic_configs, gates, layer_configs, rlock, wlock,
          event_logs, logs_mutex, pc, call, stack, poll, tasks, next_seq, drained,
          posted, installed, calls_left, fetches_left, ticks_left, probe, system_time>>

catalog_vars == <<dynamic_configs, gates, layer_configs, rlock, wlock, installed>>
queue_vars == <<event_logs, logs_mutex, tasks, next_seq, drained, posted>>
caller_vars == <<pc, call, stack, calls_left>>
poll_vars == <<poll, fetches_left>>
client_vars == <<disable_cache, client>>

\* A timer's budget of ticks: Forever never runs out, as the `loop` of a
\* background task does not; a number of ticks is counted down.
Forever == -1
CanTick(budget) == budget # 0
AfterTick(budget) == IF budget = Forever THEN budget ELSE budget - 1

\* Holders of the event_logs mutex.
Free == [kind |-> "none", name |-> "", n |-> 0]
CallerId(t) == [kind |-> "caller", name |-> t, n |-> 0]
FlushId(k) == [kind |-> "flush", name |-> "", n |-> k]

\* ------------------------------------------------------------------------
\* Inputs of the calls.

U0 == StatsigUserNew("", "production")
U1 == StatsigUserNew("u1", "production")
U2 == [StatsigUserNew("u2", "production") EXCEPT !.email = Some("e@x")]
Users == {U0, U1, U2}

ConfigOps == {"get_dynamic_config", "get_config", "get_experiment"}
Ops == {"check_gate", "get_experiment_without_local_evaluation"} \cup ConfigOps

\* The type T a config call decodes into: serde_json::Value takes every value,
\* a struct (tests/common.rs, ConfigValue) takes objects only.
Shapes == {"Value", "ConfigValue"}

NamesOf(op) == IF op = "check_gate" THEN {"A", "B", "F", "zz"} ELSE {"cfg", "cfgF", "zz"}
ShapesOf(op) == IF op = "check_gate" THEN {"bool"} ELSE Shapes

\* serde_json::from_value::<T>
Decodes(j, shape) == shape = "Value" \/ j.t = "object"
\* serde_json::from_value::<Option<T>>
DecodesOption(j, shape) == j.t = "null" \/ Decodes(j, shape)

\* What a call returns: Err(err), or Ok(body); the body carries the fields of
\* bool, T, StatsigConfig<T> or StatsigExperiment<T> that the operation fills.
NoBody == [pass |-> FALSE, value |-> None, name |-> "", group |-> "", group_name |-> None,
           rule_id |-> "", secondary_exposures |-> <<>>]
Err(e) == [ok |-> FALSE, err |-> e, body |-> NoBody]
Ok(body) == [ok |-> TRUE, err |-> "", body |-> body]

\* What the transport answers to a decision call: an error, a boolean
\* (check_gate) or a config body (get_config).
ServerConfig(name, j) ==
    [NoBody EXCEPT !.value = Some(j), !.name = name, !.group = "server_group",
                   !.group_name = Some("Server group"), !.rule_id = "server_rule"]
RepliesOf(c) ==
    {Err("statsig error")} \cup
    (IF c.op = "check_gate" THEN {Ok([NoBody EXCEPT !.pass = b]) : b \in BOOLEAN}
     ELSE {Ok(ServerConfig(c.name, j)) : j \in {JObj("SERVER"), JStr("server")}})

NewCall(op, name, user, shape) ==
    [op |-> op, name |-> name, user |-> user, shape |-> shape,
     res |-> None,        \* the evaluator's result, once it returned
     observed |-> {},     \* history: the lookups of the evaluation
     times |-> {},        \* history: the wall-clock times the evaluation ran at
     since |-> 0,         \* history: catalogs installed when the evaluation began
     evals |-> 0,         \* history: evaluator calls made
     posts |-> 0,         \* history: check_gate / get_config POSTs made
     enq |-> 0,           \* history: events appended to event_logs
     custom |-> 0,        \* history: log_custom_exposure POSTs made
     reply |-> None,      \* history: the transport's answer
     custom_ok |-> None,  \* history: whether log_custom_exposure succeeded
     out |-> None]        \* what the call returned

IdleCall == NewCall("none", "", U0, "bool")

\* The hash computations in isolation: a hash and a percentage, and, once
\* computed, the bucket, the user bucket and whether the bucket passes.
NoProbe == [hash |-> <<>>, pass_percentage |-> 0, computed |-> FALSE,
            bucket |-> 0, user_bucket |-> 0, pass |-> FALSE,
            value |-> JNull, epoch |-> I64(0),
            user |-> StatsigUserNew("", "production"), field |-> "", got |-> ""]
\* Byte values the probed hashes are made of.
ByteSamples == {0, 39, 255}
Probes ==
    {[NoProbe EXCEPT !.hash = h, !.pass_percentage = p] :
        h \in [1 .. 8 -> ByteSamples], p \in {0, 50, 100}}

InitState(cache_modes, calls, fetches, ticks) ==
    /\ disable_cache \in cache_modes
    /\ client = "new"
    /\ dynamic_configs = ToMap(None)
    /\ gates = ToMap(None)
    /\ layer_configs = ToMap(None)
    /\ rlock = [m \in MapNames |-> [t \in Callers |-> 0]]
    /\ wlock = [m \in MapNames |-> FALSE]
    /\ event_logs = <<>>
    /\ logs_mutex = Free
    /\ pc = [t \in Callers |-> "idle"]
    /\ call = [t \in Callers |-> IdleCall]
    /\ stack = [t \in Callers |-> <<>>]
    /\ poll = [pc |-> "off", data |-> CatalogNoUpdates, request |-> None, queued |-> FALSE]
    /\ tasks = <<[pc |-> "off", events |-> <<>>]>>
    /\ next_seq = 0
    /\ drained = <<>>
    /\ posted = <<>>
    /\ installed = <<>>
    /\ calls_left = calls
    /\ fetches_left = fetches
    /\ ticks_left = ticks
    /\ system_time = 0

InitWith(cache_modes, calls, fetches, ticks) ==
    InitState(cache_modes, calls, fetches, ticks) /\ probe = NoProbe

\* ------------------------------------------------------------------------
\* Client::new (client.rs).

MapOf(m) ==
    CASE m = "dynamic_configs" -> dynamic_configs
      [] m = "gates" -> gates
      [] m = "layer_configs" -> layer_configs

\* The GET of fetch_state_from_source (http.rs): the URL names the API key and
\* nothing else; the request carries no time of a previous download.
DownloadRequest == [path |-> "download_config_specs", since_time |-> None]

\* As if the error of the first fetch were swallowed.
NewOutcomeAlwaysOk(fetched) == "ready"

\* What becomes of Client::new with the outcome of its first fetch: `?` returns
\* the error to the caller, who gets no client.
NewOutcome(fetched) == IF fetched THEN "ready" ELSE "failed"

\* The caching client fetched its first catalog: refresh_configs stores it (no
\* other thread has the evaluator yet), then the two background tasks start.
NewCached(data) ==
    /\ client = "new" /\ ~disable_cache
    /\ client' = NewOutcome(TRUE)
    /\ dynamic_configs' = ToMap(data.dynamic_configs)
    /\ gates' = ToMap(data.feature_gates)
    /\ layer_configs' = ToMap(data.layer_configs)
    /\ installed' = Append(installed, data)
    /\ poll' = [poll EXCEPT !.pc = "tick"]
    /\ tasks' = [tasks EXCEPT ![1].pc = "sleep"]
    /\ UNCHANGED <<disable_cache, probe, system_time, rlock, wlock, event_logs, logs_mutex, next_seq, drained,
                   posted, fetches_left, ticks_left>>
    /\ UNCHANGED caller_vars

\* The first fetch failed: new returns the error.
NewFetchFailed ==
    /\ client = "new" /\ ~disable_cache
    /\ client' = NewOutcome(FALSE)
    /\ UNCHANGED <<disable_cache, probe, system_time, catalog_vars, queue_vars, caller_vars, poll_vars, ticks_left>>

NewUncached ==
    /\ client = "new" /\ disable_cache
    /\ client' = "ready"
    /\ UNCHANGED <<disable_cache, probe, system_time, catalog_vars, queue_vars, caller_vars, poll_vars, ticks_left>>

\* The caller drops its handle; it can start no call any more.  The two
\* background tasks own clones of the Arc (client.rs:58-59) and are not told.
DropHandle ==
    /\ client = "ready"
    /\ \A t \in Callers : pc[t] = "idle"
    /\ client' = "dropped"
    /\ UNCHANGED <<disable_cache, probe, system_time, catalog_vars, queue_vars, caller_vars, poll_vars, ticks_left>>

\* ------------------------------------------------------------------------
\* The public operations (client.rs).

\* As if the operations did not look at the user id.
AnyUser(user) == TRUE

\* user.user_id.is_empty() makes every operation bail.
ValidUser(user) == user.user_id # ""

\* As if the operations did not test self.disable_cache.
RemoteByOperationOnly(op) == op = "get_experiment_without_local_evaluation"

\* Whether the operation decides remotely without consulting the evaluator.
Remote(op) == disable_cache \/ op = "get_experiment_without_local_evaluation"

TopMap(op) == IF op = "check_gate" THEN "gates" ELSE "dynamic_configs"

Finish(t, c, out) ==
    /\ pc' = [pc EXCEPT ![t] = "idle"]
    /\ call' = [call EXCEPT ![t] = [c EXCEPT !.out = Some(out)]]

CallInvalid(t, op, name, user, shape) ==
    /\ client = "ready" /\ pc[t] = "idle" /\ calls_left > 0
    /\ ~ValidUser(user)
    /\ Finish(t, NewCall(op, name, user, shape), Err("statsig: missing user id"))
    /\ calls_left' = calls_left - 1
    /\ UNCHANGED <<stack, client_vars, probe, system_time, catalog_vars, queue_vars, poll_vars, ticks_left>>

CallRemote(t, op, name, user, shape) ==
    /\ client = "ready" /\ pc[t] = "idle" /\ calls_left > 0
    /\ ValidUser(user) /\ Remote(op)
    /\ pc' = [pc EXCEPT ![t] = "http"]
    /\ call' = [call EXCEPT ![t] = [NewCall(op, name, user, shape) EXCEPT !.posts = 1]]
    /\ calls_left' = calls_left - 1
    /\ UNCHANGED <<stack, client_vars, probe, system_time, catalog_vars, queue_vars, poll_vars, ticks_left>>

\* The oldest installed catalog a lookup can still find in a map: the one
\* before the last while refresh_configs is replacing the maps.
Refreshing == poll.pc \in {"write_dynamic_configs", "write_gates", "write_layer_configs"}
OldestVisible == IF Refreshing THEN Len(installed) - 1 ELSE Len(installed)

CallLocal(t, op, name, user, shape) ==
    /\ client = "ready" /\ pc[t] = "idle" /\ calls_left > 0
    /\ ValidUser(user) /\ ~Remote(op)
    /\ pc' = [pc EXCEPT ![t] = "eval"]
    /\ call' = [call EXCEPT ![t] = [NewCall(op, name, user, shape) EXCEPT
                                        !.evals = 1, !.since = OldestVisible]]
    /\ calls_left' = calls_left - 1
    /\ UNCHANGED <<stack, client_vars, probe, system_time, catalog_vars, queue_vars, poll_vars, ticks_left>>

\* SecondaryExposure::from_hashmap (models.rs): None unless the three keys are there.
from_hashmap(map) ==
    IF {"gate", "gateValue", "ruleID"} \subseteq DOMAIN map
    THEN Some([gate |-> map["gate"], gate_value |-> map["gateValue"], rule_id |-> map["ruleID"]])
    ELSE None

\* secondary_exposures of get_experiment: filter_map(SecondaryExposure::from_hashmap).
RECURSIVE FromHashmaps(_)
FromHashmaps(exposures) ==
    IF exposures = <<>> THEN <<>>
    ELSE from_hashmap(Head(exposures)) \o FromHashmaps(Tail(exposures))

\* The body a locally decided call returns.
LocalBody(c, res) ==
    LET j == OptOr(res.config_value, JNull)
        value == IF j.t = "null" THEN None ELSE Some(j)
    IN CASE c.op = "check_gate" -> [NoBody EXCEPT !.pass = res.pass]
         [] c.op = "get_dynamic_config" -> [NoBody EXCEPT !.value = res.config_value]
         [] c.op = "get_config" ->
              [NoBody EXCEPT !.value = value, !.name = c.name, !.group = res.group,
                             !.group_name = res.group_name, !.rule_id = res.rule_id]
         [] c.op = "get_experiment" ->
              [NoBody EXCEPT !.value = value, !.name = c.name, !.group = res.group,
                             !.group_name = res.group_name, !.rule_id = res.rule_id,
                             !.secondary_exposures = FromHashmaps(res.secondary_exposures)]

\* Whether the local value fails to decode before any exposure is recorded:
\* get_config and get_experiment decode Option<T> first.
DecodeFailsFirst(c, res) ==
    /\ c.op \in {"get_config", "get_experiment"}
    /\ ~DecodesOption(OptOr(res.config_value, JNull), c.shape)

\* What a locally decided call returns after it recorded its exposure.
LocalOutcome(c, res) ==
    IF c.op = "get_dynamic_config" /\ ~IsSome(res.config_value) THEN Err("empty config")
    ELSE IF c.op = "get_dynamic_config" /\ ~Decodes(Unwrap(res.config_value), c.shape)
         THEN Err("decode")
    ELSE Ok(LocalBody(c, res))

\* What a call returns for the transport's answer (http.rs).
RemoteOutcome(c, reply) ==
    IF ~reply.ok \/ c.op = "check_gate" THEN reply
    ELSE IF c.op = "get_dynamic_config"
         THEN IF Decodes(Unwrap(reply.body.value), c.shape)
              THEN Ok([NoBody EXCEPT !.value = reply.body.value])
              ELSE Err("error parsing")
    ELSE IF DecodesOption(Unwrap(reply.body.value), c.shape) THEN reply
         ELSE Err("error parsing")

\* Where a locally decided call goes once the evaluator returned.
AfterLocalDecision(c1, res) ==
    IF DecodeFailsFirst(c1, res)
    THEN [pc |-> "idle", call |-> [c1 EXCEPT !.out = Some(Err("decode"))]]
    ELSE IF c1.op = "get_experiment"
         THEN [pc |-> "custom_exposure", call |-> [c1 EXCEPT !.custom = @ + 1]]
    ELSE [pc |-> "exposure", call |-> c1]

\* As if a result were spoilt once the client had recorded an exposure.
AfterEvalSpoiltByQueue(c, res) ==
    LET seen == IF next_seq > 0 THEN [res EXCEPT !.pass = FALSE] ELSE res
        c1 == [c EXCEPT !.res = Some(seen)]
    IN IF res.fetch_from_server
       THEN [pc |-> "http", call |-> [c1 EXCEPT !.posts = @ + 1]]
       ELSE AfterLocalDecision(c1, seen)

\* As if check_gate did not test res.fetch_from_server.
AfterEvalGateNeverFallsBack(c, res) ==
    LET c1 == [c EXCEPT !.res = Some(res)] IN
    IF res.fetch_from_server /\ c.op # "check_gate"
    THEN [pc |-> "http", call |-> [c1 EXCEPT !.posts = @ + 1]]
    ELSE AfterLocalDecision(c1, res)

\* Where a call goes once the evaluator returned res.
AfterEval(c, res) ==
    LET c1 == [c EXCEPT !.res = Some(res)] IN
    IF res.fetch_from_server
    THEN [pc |-> "http", call |-> [c1 EXCEPT !.posts = @ + 1]]
    ELSE AfterLocalDecision(c1, res)

\* As if a lookup cloned the spec and dropped its guard before eval_spec.
GuardsDroppedEarly(st, m) == 0

\* Read guards a caller holds on map m: one per activation that looked its
\* spec up there and has not returned.
GuardsHeld(st, m) == Cardinality({i \in DOMAIN st : st[i].map = m})

\* refresh_configs waits in the queue of the lock of map m, on a platform
\* whose lock lets a waiting writer go before new readers.
WriterQueued(m) == poll.queued /\ poll.pc = "write_" \o m

\* A read guard can be taken while no writer holds the lock and none is
\* queued before the reader.
CanRead(m) == ~wlock[m] /\ ~WriterQueued(m)

\* One lookup of an evaluation (check_gate_internal or
\* get_dynamic_config_internal), and the evaluation up to its next lookup.
EvalStep(t) ==
    /\ pc[t] = "eval"
    /\ LET c == call[t]
           m == PendingMap(stack[t], TopMap(c.op))
           name == PendingName(stack[t], c.name)
           specs == MapOf(m)
           r == Lookup(c.user, stack[t], specs, m, name)
           seen == [map |-> m, name |-> name,
                    spec |-> IF name \in DOMAIN specs THEN Some(specs[name]) ELSE None]
           c1 == [c EXCEPT !.observed = @ \cup {seen}, !.times = @ \cup {system_time}]
           next == AfterEval(c1, r.res)
       IN /\ CanRead(m)
          /\ stack' = [stack EXCEPT ![t] = r.stack]
          /\ rlock' = [n \in MapNames |-> [rlock[n] EXCEPT ![t] = GuardsHeld(r.stack, n)]]
          /\ IF r.done
             THEN pc' = [pc EXCEPT ![t] = next.pc] /\ call' = [call EXCEPT ![t] = next.call]
             ELSE pc' = pc /\ call' = [call EXCEPT ![t] = c1]
    /\ UNCHANGED <<dynamic_configs, gates, layer_configs, wlock, installed, calls_left>>
    /\ UNCHANGED <<client_vars, probe, system_time, queue_vars, poll_vars, ticks_left>>

\* The transport answered a check_gate / get_config POST.
HttpReply(t, reply) ==
    /\ pc[t] = "http"
    /\ reply \in RepliesOf(call[t])
    /\ Finish(t, [call[t] EXCEPT !.reply = Some(reply)], RemoteOutcome(call[t], reply))
    /\ UNCHANGED <<stack, calls_left, client_vars, probe, system_time, catalog_vars, queue_vars, poll_vars, ticks_left>>

\* As if the error of log_custom_exposure were returned to the caller.
ExperimentOutcomeFailing(c, ok) ==
    IF ok THEN Ok(LocalBody(c, Unwrap(c.res))) ELSE Err("statsig error")

\* What get_experiment returns once log_experiment_exposure_async is done:
\* the error of log_custom_exposure is logged there and goes no further.
ExperimentOutcome(c, ok) == Ok(LocalBody(c, Unwrap(c.res)))

\* log_custom_exposure answered (log_experiment_exposure_async), and
\* get_experiment, which awaited it, returns.
CustomExposureReply(t, ok) ==
    /\ pc[t] = "custom_exposure"
    /\ Finish(t, [call[t] EXCEPT !.custom_ok = Some(ok)], ExperimentOutcome(call[t], ok))
    /\ UNCHANGED <<stack, calls_left, client_vars, probe, system_time, catalog_vars, queue_vars, poll_vars, ticks_left>>

\* ------------------------------------------------------------------------
\* The exposure queue (client.rs).

\* As if the event took its ruleID from the result's rule_id.
ExposureEventWithRuleId(c, res, seq) ==
    [seq |-> seq,
     event_name |-> IF c.op = "check_gate" THEN "statsig::gate_exposure"
                    ELSE "statsig::config_exposure",
     value |-> BoolToString(res.pass),
     user |-> c.user,
     metadata |-> IF c.op = "check_gate"
                  THEN [gate |-> c.name, gateValue |-> BoolToString(res.pass),
                        ruleID |-> res.rule_id]
                  ELSE [config |-> c.name, ruleID |-> res.rule_id]]

\* The event log_gate_exposure / log_config_exposure builds; seq is history,
\* the event's position in the order of arrival.
ExposureEvent(c, res, seq) ==
    [seq |-> seq,
     event_name |-> IF c.op = "check_gate" THEN "statsig::gate_exposure"
                    ELSE "statsig::config_exposure",
     value |-> BoolToString(res.pass),
     user |-> c.user,
     metadata |-> IF c.op = "check_gate"
                  THEN [gate |-> c.name, gateValue |-> BoolToString(res.pass), ruleID |-> res.id]
                  ELSE [config |-> c.name, ruleID |-> res.id]]

\* As if the event went to the front of the list.
PushFront(events, event) == <<event>> \o events

\* events.push(event)
Push(events, event) == Append(events, event)

\* events.len() >= MAX_LOG_EVENTS
AtThreshold(events) == Len(events) >= MAX_LOG_EVENTS

\* A flush_logs task as tokio::spawn leaves it.
SpawnedFlush == [pc |-> "start", events |-> <<>>]

\* The caller takes the event_logs mutex.
ExposureLock(t) ==
    /\ pc[t] = "exposure"
    /\ logs_mutex = Free
    /\ logs_mutex' = CallerId(t)
    /\ pc' = [pc EXCEPT ![t] = "exposure_locked"]
    /\ UNCHANGED <<event_logs, tasks, next_seq, drained, posted, call, stack, calls_left>>
    /\ UNCHANGED <<client_vars, probe, system_time, catalog_vars, poll_vars, ticks_left>>

\* The rest of log_gate_exposure / log_config_exposure, and the return of the
\* call: push, spawn a flush when the queue is at the threshold, drop the guard.
ExposurePush(t) ==
    /\ pc[t] = "exposure_locked"
    /\ LET c == call[t]
           res == Unwrap(c.res)
           events == Push(event_logs, ExposureEvent(c, res, next_seq + 1))
       IN /\ event_logs' = events
          /\ next_seq' = next_seq + 1
          /\ tasks' = IF AtThreshold(events) THEN Append(tasks, SpawnedFlush) ELSE tasks
          /\ logs_mutex' = Free
          /\ Finish(t, [c EXCEPT !.enq = @ + 1], LocalOutcome(c, res))
    /\ UNCHANGED <<drained, posted, stack, calls_left>>
    /\ UNCHANGED <<client_vars, probe, system_time, catalog_vars, poll_vars, ticks_left>>

\* background_logs_flush: the 60 s interval ticked.
TimerTick ==
    /\ tasks[1].pc = "sleep"
    /\ CanTick(ticks_left)
    /\ ticks_left' = AfterTick(ticks_left)
    /\ tasks' = [tasks EXCEPT ![1].pc = "start"]
    /\ UNCHANGED <<event_logs, logs_mutex, next_seq, drained, posted>>
    /\ UNCHANGED <<client_vars, probe, system_time, catalog_vars, caller_vars, poll_vars>>

\* flush_logs takes the mutex.
FlushLock(k) ==
    /\ tasks[k].pc = "start"
    /\ logs_mutex = Free
    /\ logs_mutex' = FlushId(k)
    /\ tasks' = [tasks EXCEPT ![k].pc = "locked"]
    /\ UNCHANGED <<event_logs, next_seq, drained, posted, ticks_left>>
    /\ UNCHANGED <<client_vars, probe, system_time, catalog_vars, caller_vars, poll_vars>>

\* The queue after std::mem::take.
Taken(events) == <<>>

\* As if the guard lived to the end of flush_logs.
HolderKept(k) == FlushId(k)

\* The holder of the mutex once the block around the take ends.
HolderAfterTake(k) == Free

\* As if background_logs_flush returned after its first flush.
RestOnce(k) == "done"

\* Where a flush task goes when flush_logs returns.
Rest(k) == IF k = 1 THEN "sleep" ELSE "done"

\* flush_logs: events = std::mem::take(&mut *logs), the guard dropped; an
\* empty batch is not sent.
FlushTake(k) ==
    /\ tasks[k].pc = "locked"
    /\ event_logs' = Taken(event_logs)
    /\ logs_mutex' = HolderAfterTake(k)
    /\ drained' = IF event_logs = <<>> THEN drained ELSE Append(drained, event_logs)
    /\ tasks' = [tasks EXCEPT ![k] = [pc |-> IF event_logs = <<>> THEN Rest(k) ELSE "post",
                                      events |-> event_logs]]
    /\ UNCHANGED <<next_seq, posted, ticks_left>>
    /\ UNCHANGED <<client_vars, probe, system_time, catalog_vars, caller_vars, poll_vars>>

\* As if a failed batch were put back in front of the queue.
Requeued(events, batch) == batch \o events

\* The queue after a log_event POST failed: the error is logged, nothing else.
AfterPostFailed(events, batch) == events

\* log_event_internal answered.
FlushPost(k, ok) ==
    /\ tasks[k].pc = "post"
    /\ posted' = Append(posted, [events |-> tasks[k].events, ok |-> ok, by |-> k])
    /\ tasks' = [tasks EXCEPT ![k] = [pc |-> Rest(k), events |-> <<>>]]
    /\ event_logs' = IF ok THEN event_logs ELSE AfterPostFailed(event_logs, tasks[k].events)
    /\ UNCHANGED <<logs_mutex, next_seq, drained, ticks_left>>
    /\ UNCHANGED <<client_vars, probe, system_time, catalog_vars, caller_vars, poll_vars>>

\* ------------------------------------------------------------------------
\* poll_for_changes (client.rs) and refresh_configs (evaluator/mod.rs).

\* The sync interval ticked: fetch_state_from_source sends its GET.
PollTick ==
    /\ poll.pc = "tick"
    /\ CanTick(fetches_left)
    /\ fetches_left' = AfterTick(fetches_left)
    /\ poll' = [poll EXCEPT !.pc = "fetch", !.request = Some(DownloadRequest)]
    /\ UNCHANGED <<client_vars, probe, system_time, catalog_vars, queue_vars, caller_vars, ticks_left>>

\* The fetch failed (after its retries): logged, the loop continues.
PollFetchFailed ==
    /\ poll.pc = "fetch"
    /\ poll' = [poll EXCEPT !.pc = "tick"]
    /\ UNCHANGED <<fetches_left, client_vars, probe, system_time, catalog_vars, queue_vars, caller_vars, ticks_left>>

\* As if poll_for_changes did not test has_updates.
RefreshesAlways(data) == TRUE

\* Whether poll_for_changes hands the fetched state to refresh_configs.
Refreshes(data) == data.has_updates

\* The fetch succeeded.
PollFetched(data) ==
    /\ poll.pc = "fetch"
    /\ data \in ServerCatalogs
    /\ IF Refreshes(data)
       THEN /\ poll' = [poll EXCEPT !.pc = "write_dynamic_configs", !.data = data]
            /\ installed' = Append(installed, data)
       ELSE /\ poll' = [poll EXCEPT !.pc = "tick", !.data = data]
            /\ installed' = installed
    /\ UNCHANGED <<dynamic_configs, gates, layer_configs, rlock, wlock, fetches_left>>
    /\ UNCHANGED <<client_vars, probe, system_time, queue_vars, caller_vars, ticks_left>>

\* A write guard is granted when nobody holds the lock.
CanWrite(m) == ~wlock[m] /\ \A t \in Callers : rlock[m][t] = 0

\* As if refresh_configs added the new specs to the map it finds.
ReplacedByMerging(current, opt) ==
    [n \in DOMAIN current \cup DOMAIN ToMap(opt) |->
        IF n \in DOMAIN ToMap(opt) THEN ToMap(opt)[n] ELSE current[n]]

\* `*gates = feature_gates` (and the like): the map built from the new data
\* takes the place of the current one.
Replaced(current, opt) == ToMap(opt)

\* write() found the lock of the next map held by readers.  ShardedLock
\* leaves the priority policy to the operating system's lock: where a waiting
\* writer has priority, it keeps new read guards from being granted from now
\* on, also to a thread that holds one already; elsewhere this step does not
\* happen.
RefreshQueue ==
    /\ \E m \in MapNames : poll.pc = "write_" \o m /\ ~CanWrite(m)
    /\ ~poll.queued
    /\ poll' = [poll EXCEPT !.queued = TRUE]
    /\ UNCHANGED <<fetches_left, client_vars, probe, system_time, catalog_vars, queue_vars,
                   caller_vars, ticks_left>>

\* refresh_configs: the three write guards are taken in this order, each map
\* is assigned under its guard, and all guards live to the end of the function.
RefreshDynamicConfigs ==
    /\ poll.pc = "write_dynamic_configs"
    /\ CanWrite("dynamic_configs")
    /\ wlock' = [wlock EXCEPT !["dynamic_configs"] = TRUE]
    /\ dynamic_configs' = Replaced(dynamic_configs, poll.data.dynamic_configs)
    /\ poll' = [poll EXCEPT !.pc = "write_gates", !.queued = FALSE]
    /\ UNCHANGED <<gates, layer_configs, rlock, installed, fetches_left>>
    /\ UNCHANGED <<client_vars, probe, system_time, queue_vars, caller_vars, ticks_left>>

RefreshGates ==
    /\ poll.pc = "write_gates"
    /\ CanWrite("gates")
    /\ wlock' = [wlock EXCEPT !["gates"] = TRUE]
    /\ gates' = Replaced(gates, poll.data.feature_gates)
    /\ poll' = [poll EXCEPT !.pc = "write_layer_configs", !.queued = FALSE]
    /\ UNCHANGED <<dynamic_configs, layer_configs, rlock, installed, fetches_left>>
    /\ UNCHANGED <<client_vars, probe, system_time, queue_vars, caller_vars, ticks_left>>

RefreshLayerConfigs ==
    /\ poll.pc = "write_layer_configs"
    /\ CanWrite("layer_configs")
    /\ layer_configs' = Replaced(layer_configs, poll.data.layer_configs)
    /\ wlock' = [m \in MapNames |-> FALSE]
    /\ poll' = [poll EXCEPT !.pc = "tick", !.queued = FALSE]
    /\ UNCHANGED <<dynamic_configs, gates, rlock, installed, fetches_left>>
    /\ UNCHANGED <<client_vars, probe, system_time, queue_vars, caller_vars, ticks_left>>

\* ------------------------------------------------------------------------
\* Specifications.  Each one composes the same actions; they differ in the
\* callers that act, in the inputs the callers draw and in the background
\* tasks that are scheduled.

\* The whole client.
Init == InitWith(BOOLEAN, MaxCallsFacade, MaxFetch, MaxTicks)

Next ==
    \/ \E data \in ServerCatalogs : NewCached(data)
    \/ NewFetchFailed
    \/ NewUncached
    \/ DropHandle
    \/ \E t \in Callers, op \in Ops, user \in Users :
         \E name \in NamesOf(op), shape \in ShapesOf(op) : CallInvalid(t, op, name, user, shape)
    \/ \E t \in Callers, op \in Ops, user \in Users :
         \E name \in NamesOf(op), shape \in ShapesOf(op) : CallRemote(t, op, name, user, shape)
    \/ \E t \in Callers, op \in Ops, user \in Users :
         \E name \in NamesOf(op), shape \in ShapesOf(op) : CallLocal(t, op, name, user, shape)
    \/ \E t \in Callers : EvalStep(t)
    \/ \E t \in Callers : \E reply \in RepliesOf(call[t]) : HttpReply(t, reply)
    \/ \E t \in Callers, ok \in BOOLEAN : CustomExposureReply(t, ok)
    \/ \E t \in Callers : ExposureLock(t)
    \/ \E t \in Callers : ExposurePush(t)
    \/ TimerTick
    \/ \E k \in DOMAIN tasks : FlushLock(k)
    \/ \E k \in DOMAIN tasks : FlushTake(k)
    \/ \E k \in DOMAIN tasks, ok \in BOOLEAN : FlushPost(k, ok)
    \/ PollTick
    \/ PollFetchFailed
    \/ \E data \in ServerCatalogs : PollFetched(data)
    \/ RefreshDynamicConfigs
    \/ RefreshGates
    \/ RefreshLayerConfigs

Spec == Init /\ [][Next]_vars

\* The facade: one caller, every operation and input, both cache modes, the
\* catalog as Client::new stored it; the background timers do not tick.
InitFacade == InitWith(BOOLEAN, MaxCallsFacade, 0, 0)

NextFacade ==
    \/ NewCached(Catalog1)
    \/ NewFetchFailed
    \/ NewUncached
    \/ \E op \in Ops, user \in Users :
         \E name \in NamesOf(op), shape \in ShapesOf(op) : CallInvalid("c1", op, name, user, shape)
    \/ \E op \in Ops, user \in Users :
         \E name \in NamesOf(op), shape \in ShapesOf(op) : CallRemote("c1", op, name, user, shape)
    \/ \E op \in Ops, user \in Users :
         \E name \in NamesOf(op), shape \in ShapesOf(op) : CallLocal("c1", op, name, user, shape)
    \/ EvalStep("c1")
    \/ \E reply \in RepliesOf(call["c1"]) : HttpReply("c1", reply)
    \/ \E ok \in BOOLEAN : CustomExposureReply("c1", ok)
    \/ ExposureLock("c1")
    \/ ExposurePush("c1")

SpecFacade == InitFacade /\ [][NextFacade]_vars

\* The exposure queue: two callers check gate B for the same user, the flush
\* timer ticks and the threshold spawns flushes; the catalog does not change.
InitQueue == InitWith({FALSE}, MaxCallsQueue, 0, MaxTicks)

NextQueue ==
    \/ NewCached(Catalog1)
    \/ \E t \in Callers : CallLocal(t, "check_gate", "B", U1, "bool")
    \/ \E t \in Callers : EvalStep(t)
    \/ \E t \in Callers : ExposureLock(t)
    \/ \E t \in Callers : ExposurePush(t)
    \/ TimerTick
    \/ \E k \in DOMAIN tasks : FlushLock(k)
    \/ \E k \in DOMAIN tasks : FlushTake(k)
    \/ \E k \in DOMAIN tasks, ok \in BOOLEAN : FlushPost(k, ok)

SpecQueue == InitQueue /\ [][NextQueue]_vars

\* The queue while the flush timer keeps ticking: the callers check gate B,
\* and every task that can run is run in the end, the timer's loop, each
\* flush_logs and each caller that holds the mutex.
InitFlush == InitWith({FALSE}, MaxCallsFlush, 0, Forever)

NextFlush ==
    \/ NewCached(Catalog1)
    \/ \E t \in Callers : CallLocal(t, "check_gate", "B", U1, "bool")
    \/ \E t \in Callers : EvalStep(t)
    \/ \E t \in Callers : ExposureLock(t)
    \/ \E t \in Callers : ExposurePush(t)
    \/ TimerTick
    \/ \E k \in DOMAIN tasks : FlushLock(k)
    \/ \E k \in DOMAIN tasks : FlushTake(k)
    \/ \E k \in DOMAIN tasks, ok \in BOOLEAN : FlushPost(k, ok)

\* The timer's task and one spawned task for each call at most.
FlushTasks == 1 .. MaxCallsFlush + 1
FlushRuns(k) ==
    /\ k \in DOMAIN tasks
    /\ FlushLock(k) \/ FlushTake(k) \/ \E ok \in BOOLEAN : FlushPost(k, ok)

SpecFlush ==
    /\ InitFlush /\ [][NextFlush]_vars
    /\ WF_vars(TimerTick)
    /\ \A k \in FlushTasks : WF_vars(FlushRuns(k))
    /\ \A t \in Callers : WF_vars(ExposurePush(t))

\* The catalog: two callers evaluate gates A and B and config cfg while
\* poll_for_changes downloads and refresh_configs replaces the maps.
InitCatalog == InitWith({FALSE}, MaxCallsCatalog, MaxFetch, 0)

NextCatalog ==
    \/ \E data \in ServerCatalogs : NewCached(data)
    \/ \E t \in Callers, name \in {"A", "B"} : CallLocal(t, "check_gate", name, U2, "bool")
    \/ \E t \in Callers : CallLocal(t, "get_config", "cfg", U2, "Value")
    \/ \E t \in Callers : EvalStep(t)
    \/ \E t \in Callers : ExposureLock(t)
    \/ \E t \in Callers : ExposurePush(t)
    \/ PollTick
    \/ PollFetchFailed
    \/ \E data \in ServerCatalogs : PollFetched(data)
    \/ RefreshDynamicConfigs
    \/ RefreshGates
    \/ RefreshLayerConfigs

SpecCatalog == InitCatalog /\ [][NextCatalog]_vars

\* The locks: the callers and the refresh of SpecCatalog, scheduled fairly,
\* on a platform whose lock may give a waiting writer priority.
RefreshStep == RefreshDynamicConfigs \/ RefreshGates \/ RefreshLayerConfigs

NextLocks == NextCatalog \/ RefreshQueue

\* EvalStep(t) can be taken: the caller is in an evaluation and the read
\* guard of its next lookup can be granted.
EvalEnabled(t) == pc[t] = "eval" /\ CanRead(PendingMap(stack[t], TopMap(call[t].op)))

\* A caller's thread that can go on does go on (weak fairness of EvalStep(t),
\* with its enabling condition written out), and so does refresh_configs.
SpecLocks ==
    /\ InitCatalog /\ [][NextLocks]_vars
    /\ \A t \in Callers : ([]<>(~EvalEnabled(t)) \/ []<><<EvalStep(t)>>_vars)
    /\ WF_vars(RefreshStep)

\* The evaluator: one caller checks the gates and reads the configs of
\* CatalogEval, for a user with and a user without the email the rules ask for.
InitEval == InitWith({FALSE}, MaxCallsEval, 0, 0)

EvalNamesOf(op) ==
    IF op = "check_gate" THEN {"P100", "P0", "D", "ND", "N", "E"} ELSE {"R", "DC", "NC", "EC"}

NextEval ==
    \/ NewCached(CatalogEval)
    \/ \E op \in {"check_gate", "get_dynamic_config", "get_config"}, user \in {U1, U2} :
         \E name \in EvalNamesOf(op), shape \in ShapesOf(op) :
            CallLocal("c1", op, name, user, shape)
    \/ EvalStep("c1")
    \/ ExposureLock("c1")
    \/ ExposurePush("c1")

SpecEval == InitEval /\ [][NextEval]_vars

\* The bucket computations, for hashes made of the sampled bytes and for the
\* percentages 0, 50 and 100; no client is built.
InitHash == InitState({TRUE}, 0, 0, 0) /\ probe \in Probes

HashProbe ==
    /\ ~probe.computed /\ probe.hash # <<>>
    /\ probe' = [probe EXCEPT !.computed = TRUE,
                              !.bucket = U64Mod(probe.hash, 10000),
                              !.user_bucket = user_bucket(probe.hash),
                              !.pass = BucketPasses(probe.hash, probe.pass_percentage)]
    /\ UNCHANGED <<disable_cache, client, catalog_vars, queue_vars, caller_vars, poll_vars,
                   ticks_left, system_time>>

NextHash == HashProbe

SpecHash == InitHash /\ [][NextHash]_vars

\* get_unix_epoch in isolation: a JSON value and, once computed, its epoch.
\* The values are null, booleans, arrays, objects, texts that are no
\* numerals, and the sampled numerals as numbers and as strings.
NumeralTexts ==
    {ToString(n) : n \in {0, 1, MaxNumeral, 0 - 1, 0 - MaxNumeral}}
        \cup {I64Text(w) : w \in WideNumerals}
EpochValues ==
    {JNull, JBool(TRUE), JBool(FALSE), JArr(<<>>), JArr(<<JNum(1)>>), JObj("o"),
     JStr("abc"), JStr(""), JStr("1.5"), [JNum(1) EXCEPT !.v = "1.5"]}
        \cup {JStr(x) : x \in NumeralTexts}
        \cup {[JNum(1) EXCEPT !.v = x] : x \in NumeralTexts}

InitEpoch ==
    /\ InitState({TRUE}, 0, 0, 0)
    /\ probe \in {[NoProbe EXCEPT !.value = v] : v \in EpochValues}

EpochProbe ==
    /\ ~probe.computed /\ probe.hash = <<>> /\ probe.field = ""
    /\ probe' = [probe EXCEPT !.computed = TRUE, !.epoch = get_unix_epoch(probe.value)]
    /\ UNCHANGED <<disable_cache, client, catalog_vars, queue_vars, caller_vars, poll_vars,
                   ticks_left, system_time>>

NextEpoch == EpochProbe

SpecEpoch == InitEpoch /\ [][NextEpoch]_vars

\* get_field in isolation: a user, a field name and, once computed, the
\* field's value.  The users have an email, and each of custom and
\* private_atributes is absent, empty, or holds the keys "plan", "Plan", both
\* or another one.
AttributeKeys == {{}, {"plan"}, {"Plan"}, {"plan", "Plan"}, {"other"}}
AttributeMaps(tag) ==
    {None} \cup {Some([k \in ks |-> tag \o k]) : ks \in AttributeKeys}
FieldUsers ==
    {[U2 EXCEPT !.custom = c, !.private_atributes = p] :
        c \in AttributeMaps("custom:"), p \in AttributeMaps("private:")}
FieldNames == {"plan", "Plan", "email"}

InitField ==
    /\ InitState({TRUE}, 0, 0, 0)
    /\ probe \in {[NoProbe EXCEPT !.user = u, !.field = f] : u \in FieldUsers, f \in FieldNames}

FieldProbe ==
    /\ ~probe.computed /\ probe.field # ""
    /\ probe' = [probe EXCEPT !.computed = TRUE, !.got = get_field(probe.user, probe.field)]
    /\ UNCHANGED <<disable_cache, client, catalog_vars, queue_vars, caller_vars, poll_vars,
                   ticks_left, system_time>>

NextField == FieldProbe

SpecField == InitField /\ [][NextField]_vars

\* The conditions that refer to gates: one caller checks the gates and reads
\* the config of CatalogCond.
MaxCallsCond == 1

InitCond == InitWith({FALSE}, MaxCallsCond, 0, 0)

CondNamesOf(op) ==
    IF op = "check_gate"
    THEN {"P100", "P0", "D", "B", "A", "AA", "PP", "PN", "FP", "FN", "PD", "FD", "M1", "M2",
          "T1", "T2", "T3", "T4", "X", "Q", "QN", "QF", "UK", "PUK"}
    ELSE {"UKC"}

NextCond ==
    \/ NewCached(CatalogCond)
    \/ \E op \in {"check_gate", "get_dynamic_config", "get_config"}, user \in {U1, U2} :
         \E name \in CondNamesOf(op), shape \in ShapesOf(op) :
            CallLocal("c1", op, name, user, shape)
    \/ EvalStep("c1")
    \/ \E reply \in RepliesOf(call["c1"]) : HttpReply("c1", reply)
    \/ ExposureLock("c1")
    \/ ExposurePush("c1")

SpecCond == InitCond /\ [][NextCond]_vars

\* The dispatch of eval_condition: one caller checks the gates of
\* CatalogDispatch, and the transport answers the checks left to the server.
MaxCallsDispatch == 1

InitDispatch == InitWith({FALSE}, MaxCallsDispatch, 0, 0)

NextDispatch ==
    \/ NewCached(CatalogDispatch)
    \/ \E name \in DOMAIN ToMap(CatalogDispatch.feature_gates) :
         CallLocal("c1", "check_gate", name, U1, "bool")
    \/ EvalStep("c1")
    \/ \E reply \in RepliesOf(call["c1"]) : HttpReply("c1", reply)
    \/ ExposureLock("c1")
    \/ ExposurePush("c1")

SpecDispatch == InitDispatch /\ [][NextDispatch]_vars

\* The wall clock: two callers check the gates of CatalogClock while time
\* passes.
MaxCallsClock == 2
MaxTime == 1

InitClock == InitWith({FALSE}, MaxCallsClock, 0, 0)

\* A second of wall-clock time passes.
ClockTick ==
    /\ system_time < MaxTime
    /\ system_time' = system_time + 1
    /\ UNCHANGED <<client_vars, probe, catalog_vars, queue_vars, caller_vars, poll_vars,
                   ticks_left>>

NextClock ==
    \/ NewCached(CatalogClock)
    \/ \E t \in Callers, name \in {"TM", "TN", "P100"} :
         CallLocal(t, "check_gate", name, U1, "bool")
    \/ \E t \in Callers : EvalStep(t)
    \/ \E t \in Callers : ExposureLock(t)
    \/ \E t \in Callers : ExposurePush(t)
    \/ ClockTick

SpecClock == InitClock /\ [][NextClock]_vars

\* The membership operators: one caller checks the gates of
\* CatalogMembership for users whose email is missing, lowercase, uppercase
\* or a numeral, while time passes.
MaxCallsMembership == 1

UAbc == [StatsigUserNew("u2", "production") EXCEPT !.email = Some("abc")]
UABC == [StatsigUserNew("u2", "production") EXCEPT !.email = Some("ABC")]
UOne == [StatsigUserNew("u2", "production") EXCEPT !.email = Some("1")]

InitMembership == InitWith({FALSE}, MaxCallsMembership, 0, 0)

NextMembership ==
    \/ NewCached(CatalogMembership)
    \/ \E name \in DOMAIN ToMap(CatalogMembership.feature_gates),
          user \in {U1, UAbc, UABC, UOne} :
         CallLocal("c1", "check_gate", name, user, "bool")
    \/ EvalStep("c1")
    \/ ExposureLock("c1")
    \/ ExposurePush("c1")
    \/ ClockTick

SpecMembership == InitMembership /\ [][NextMembership]_vars

\* The replacement of the catalog: one caller checks gates A, B and F (which
\* only Catalog1 has) while poll_for_changes downloads and refresh_configs
\* replaces the maps.
MaxCallsRefresh == 1

InitRefresh == InitWith({FALSE}, MaxCallsRefresh, MaxFetch, 0)

NextRefresh ==
    \/ \E data \in ServerCatalogs : NewCached(data)
    \/ \E name \in {"A", "B", "F"} : CallLocal("c1", "check_gate", name, U2, "bool")
    \/ EvalStep("c1")
    \/ \E reply \in RepliesOf(call["c1"]) : HttpReply("c1", reply)
    \/ ExposureLock("c1")
    \/ ExposurePush("c1")
    \/ PollTick
    \/ PollFetchFailed
    \/ \E data \in ServerCatalogs : PollFetched(data)
    \/ RefreshDynamicConfigs
    \/ RefreshGates
    \/ RefreshLayerConfigs

SpecRefresh == InitRefresh /\ [][NextRefresh]_vars

\* The fallback behind gate references: one caller checks the gates of
\* CatalogDepth, and the transport answers the checks left to the server.
MaxCallsDepth == 1

InitDepth == InitWith({FALSE}, MaxCallsDepth, 0, 0)

NextDepth ==
    \/ NewCached(CatalogDepth)
    \/ \E name \in DOMAIN ToMap(Some(DepthGates)), user \in {U1, U2} :
         CallLocal("c1", "check_gate", name, user, "bool")
    \/ EvalStep("c1")
    \/ \E reply \in RepliesOf(call["c1"]) : HttpReply("c1", reply)
    \/ ExposureLock("c1")
    \/ ExposurePush("c1")

SpecDepth == InitDepth /\ [][NextDepth]_vars

\* eval_rule: one caller checks the gates of CatalogRule, and the transport
\* answers the checks left to the server.
MaxCallsRule == 1

InitRule == InitWith({FALSE}, MaxCallsRule, 0, 0)

NextRule ==
    \/ NewCached(CatalogRule)
    \/ \E name \in DOMAIN ToMap(Some(PairGates)), user \in {U1, U2} :
         CallLocal("c1", "check_gate", name, user, "bool")
    \/ EvalStep("c1")
    \/ \E reply \in RepliesOf(call["c1"]) : HttpReply("c1", reply)
    \/ ExposureLock("c1")
    \/ ExposurePush("c1")

SpecRule == InitRule /\ [][NextRule]_vars

\* eq and neq: one caller checks the gates of CatalogEquality while time
\* passes.
MaxCallsEquality == 1

InitEquality == InitWith({FALSE}, MaxCallsEquality, 0, 0)

NextEquality ==
    \/ NewCached(CatalogEquality)
    \/ \E name \in DOMAIN ToMap(CatalogEquality.feature_gates), user \in {U1, UAbc, UOne} :
         CallLocal("c1", "check_gate", name, user, "bool")
    \/ EvalStep("c1")
    \/ ExposureLock("c1")
    \/ ExposurePush("c1")
    \/ ClockTick

SpecEquality == InitEquality /\ [][NextEquality]_vars

\* The life of the background tasks: the callers check gate B and then drop
\* the handle, the server has no updates, and both timers tick for ever.  The
\* runtime schedules every task that can run.
InitLifecycle == InitWith({FALSE}, MaxCallsLifecycle, Forever, Forever)

PollStep == PollTick \/ PollFetchFailed \/ PollFetched(CatalogNoUpdates)
FlushStep ==
    \/ TimerTick
    \/ \E k \in DOMAIN tasks : FlushLock(k) \/ FlushTake(k)
    \/ \E k \in DOMAIN tasks, ok \in BOOLEAN : FlushPost(k, ok)

NextLifecycle ==
    \/ NewCached(Catalog1)
    \/ DropHandle
    \/ \E t \in Callers : CallLocal(t, "check_gate", "B", U1, "bool")
    \/ \E t \in Callers : EvalStep(t)
    \/ \E t \in Callers : ExposureLock(t)
    \/ \E t \in Callers : ExposurePush(t)
    \/ PollTick
    \/ PollFetchFailed
    \/ PollFetched(CatalogNoUpdates)
    \/ TimerTick
    \/ \E k \in DOMAIN tasks : FlushLock(k)
    \/ \E k \in DOMAIN tasks : FlushTake(k)
    \/ \E k \in DOMAIN tasks, ok \in BOOLEAN : FlushPost(k, ok)

SpecLifecycle ==
    InitLifecycle /\ [][NextLifecycle]_vars /\ WF_vars(PollStep) /\ WF_vars(FlushStep)

\* ------------------------------------------------------------------------
\* Properties of the catalog (SpecCatalog).

\* What a lookup of `name` in map m finds when the maps hold the catalog data.
FoundIn(data, m, name) ==
    LET specs == ToMap(CASE m = "gates" -> data.feature_gates
                         [] m = "dynamic_configs" -> data.dynamic_configs
                         [] m = "layer_configs" -> data.layer_configs)
    IN IF name \in DOMAIN specs THEN Some(specs[name]) ELSE None

\* C1: every evaluation, with its nested pass_gate / fail_gate lookups, reads
\* one catalog: there is one installed catalog, not older than the one in the
\* maps when the call began, that gives every lookup of the evaluation exactly
\* what the lookup found - never specs of two catalogs, never a spec of none.
C1_EvaluationSeesOneCatalog ==
    \A t \in Callers :
        call[t].observed # {} =>
            \E i \in call[t].since .. Len(installed) :
                \A o \in call[t].observed : o.spec = FoundIn(installed[i], o.map, o.name)

\* C1 witness: a caller is in the middle of an evaluation of gate A of one
\* catalog (its nested lookup of B still ahead) while refresh_configs has
\* replaced dynamic_configs with another catalog's and waits for the gates.
C1_Witness ==
    \E t \in Callers :
        /\ pc[t] = "eval" /\ stack[t] # <<>>
        /\ poll.pc = "write_gates"
        /\ Len(installed) = 2 /\ installed[1] # installed[2]
        /\ installed[2].has_updates /\ IsSome(installed[2].feature_gates)

\* ------------------------------------------------------------------------
\* Properties of the facade (SpecFacade).

\* A caching client's call whose local evaluation asked for the server.
FellBack(c) == ~disable_cache /\ IsSome(c.res) /\ Unwrap(c.res).fetch_from_server
\* A caching client's call that the evaluator decided.
DecidedLocally(c) == ~disable_cache /\ IsSome(c.res) /\ ~Unwrap(c.res).fetch_from_server
Returned(t) == pc[t] = "idle" /\ IsSome(call[t].out)

\* C2: a call whose local evaluation yields fetch_from_server makes exactly
\* one transport decision call and waits for it, appends no exposure event
\* and sends no custom exposure; what it returns is the transport's error, or
\* the transport's answer (its boolean, or its config with no secondary
\* exposures), or the error of decoding that answer.
C2_FallbackDelegates ==
    \A t \in Callers :
        LET c == call[t] IN
        FellBack(c) =>
            /\ c.enq = 0 /\ c.custom = 0 /\ c.posts = 1
            /\ pc[t] \in {"http", "idle"}
            /\ pc[t] = "idle" =>
                 /\ IsSome(c.reply) /\ IsSome(c.out)
                 /\ LET reply == Unwrap(c.reply)
                        out == Unwrap(c.out)
                    IN /\ ~reply.ok => out = reply
                       /\ out.ok => /\ reply.ok
                                    /\ out.body.pass = reply.body.pass
                                    /\ out.body.value = reply.body.value
                                    /\ out.body.secondary_exposures = <<>>
                       /\ (reply.ok /\ ~out.ok) => out.err = "error parsing"

\* C2 witness: a get_experiment whose evaluation fell back returned the
\* server's config.
C2_Witness ==
    \E t \in Callers :
        /\ FellBack(call[t]) /\ Returned(t)
        /\ call[t].op = "get_experiment"
        /\ Unwrap(call[t].out).ok
        /\ Unwrap(call[t].out).body.rule_id = "server_rule"

\* C3, as claimed: every returned check_gate, get_dynamic_config and get_config
\* call that the evaluator decided has appended exactly one exposure event and
\* made no transport decision call, whatever it returned.
C3_LocalDecisionEnqueuesOne ==
    \A t \in Callers :
        LET c == call[t] IN
        (DecidedLocally(c) /\ Returned(t)
         /\ c.op \in {"check_gate", "get_dynamic_config", "get_config"}) =>
            c.enq = 1 /\ c.posts = 0

\* C10: a call with an empty user id has returned an error without an
\* evaluation, a transport call or an exposure, in both cache modes, and no
\* queued event is about such a user.
C10_EmptyUserIdRejected ==
    /\ \A t \in Callers :
          LET c == call[t] IN
          (c.op # "none" /\ c.user.user_id = "") =>
              /\ pc[t] = "idle" /\ IsSome(c.out) /\ ~Unwrap(c.out).ok
              /\ Unwrap(c.out).err = "statsig: missing user id"
              /\ c.evals = 0 /\ c.posts = 0 /\ c.enq = 0 /\ c.custom = 0
              /\ c.res = None /\ c.reply = None /\ stack[t] = <<>>
    /\ \A i \in DOMAIN event_logs : event_logs[i].user.user_id # ""

\* C10 witness: both operations that never evaluate locally and operations
\* that do were rejected, with and without the cache.
C10_Witness ==
    \E t \in Callers :
        /\ call[t].user.user_id = "" /\ Returned(t)
        /\ call[t].op = "get_experiment_without_local_evaluation"
        /\ disable_cache
        /\ event_logs = <<>>

\* ------------------------------------------------------------------------
\* Properties of the exposure queue (SpecQueue).

SeqsOf(events) == {events[i].seq : i \in DOMAIN events}
Increasing(events) ==
    \A i, j \in DOMAIN events : i < j => events[i].seq < events[j].seq
\* The batches flush_logs holds for a POST that has not been answered.
InPost == {k \in DOMAIN tasks : tasks[k].pc = "post"}
\* The flush_logs tasks log_*_exposure spawned (task 1 is the timer loop).
Spawned == {k \in DOMAIN tasks : k > 1}

\* C4: the batches POSTed to log_event, answered or not, are pairwise
\* disjoint and hold no event twice, and no event of a POSTed batch, failed
\* ones included, is in the queue or in a later batch.
C4_EventInAtMostOneBatch ==
    /\ \A i, j \in DOMAIN posted :
          i # j => SeqsOf(posted[i].events) \cap SeqsOf(posted[j].events) = {}
    /\ \A i \in DOMAIN posted :
          /\ Cardinality(SeqsOf(posted[i].events)) = Len(posted[i].events)
          /\ SeqsOf(posted[i].events) \cap SeqsOf(event_logs) = {}
          /\ \A k \in InPost : SeqsOf(posted[i].events) \cap SeqsOf(tasks[k].events) = {}
    /\ \A k \in InPost :
          /\ SeqsOf(tasks[k].events) \cap SeqsOf(event_logs) = {}
          /\ \A l \in InPost : k # l => SeqsOf(tasks[k].events) \cap SeqsOf(tasks[l].events) = {}

\* C4 witness: a timer flush and a threshold flush both POSTed, the first
\* POST failed, and events were enqueued after it.
C4_Witness ==
    /\ Len(posted) >= 2
    /\ ~posted[1].ok
    /\ \E i, j \in DOMAIN posted : posted[i].by = 1 /\ posted[j].by > 1
    /\ event_logs # <<>>

\* C5, as claimed: of the flushes scheduled because the queue reached the
\* threshold, at most one at a time has a log_event POST in flight.
C5_AtMostOneFlushInFlight == Cardinality(InPost \cap Spawned) <= 1

\* C6: the mutex is held exactly while a caller appends its event or a flush
\* swaps the queue out, by that caller or flush; no flush holds it during its
\* POST, so whenever nobody is appending or swapping an enqueue can take it.
C6_MutexNotHeldDuringPost ==
    /\ \A k \in InPost : logs_mutex # FlushId(k)
    /\ \A t \in Callers : logs_mutex = CallerId(t) <=> pc[t] = "exposure_locked"
    /\ \A k \in DOMAIN tasks : logs_mutex = FlushId(k) <=> tasks[k].pc = "locked"
    /\ logs_mutex = Free <=>
          /\ \A t \in Callers : pc[t] # "exposure_locked"
          /\ \A k \in DOMAIN tasks : tasks[k].pc # "locked"

\* C6 witness: while a POST is in flight, events enqueued after its batch was
\* taken made the queue longer than the threshold.
C6_Witness ==
    /\ InPost # {}
    /\ Len(event_logs) > MAX_LOG_EVENTS
    /\ logs_mutex = Free

\* C7: the queue and every drained batch are in the order of arrival, and
\* every event of an earlier drained batch arrived before every event of a
\* later one and before every event still queued.
C7_ArrivalOrderKept ==
    /\ Increasing(event_logs)
    /\ \A b \in DOMAIN drained :
          /\ Increasing(drained[b])
          /\ \A x \in SeqsOf(drained[b]) : \A y \in SeqsOf(event_logs) : x < y
    /\ \A a, b \in DOMAIN drained :
          a < b => \A x \in SeqsOf(drained[a]) : \A y \in SeqsOf(drained[b]) : x < y

\* C7 witness: two batches were drained, the first with several events.
C7_Witness ==
    /\ Len(drained) >= 2
    /\ Len(drained[1]) >= 2
    /\ event_logs # <<>>

\* ------------------------------------------------------------------------
\* Properties of the refresh loop (SpecCatalog).

Maps == <<dynamic_configs, gates, layer_configs>>
Writing == poll.pc \in {"write_dynamic_configs", "write_gates", "write_layer_configs"}

\* C8: once the client is built, a step changes a catalog map only inside a
\* refresh_configs that poll_for_changes started for a fetched state with
\* has_updates true, and the step that ends a fetch either starts such a
\* refresh or, on a failure or on has_updates false, goes back to wait for
\* the next tick with the three maps as they were.
C8_CatalogChangesOnlyOnUpdates ==
    [][/\ (client = "ready" /\ Maps' # Maps) => (Writing /\ poll.data.has_updates)
       /\ (poll.pc = "fetch" /\ poll'.pc # "fetch") =>
             /\ Maps' = Maps
             /\ \/ poll'.pc = "write_dynamic_configs" /\ poll'.data.has_updates
                \/ poll'.pc = "tick"
       /\ (Writing /\ ~Writing') => (poll'.pc = "tick" /\ installed' = installed)
      ]_vars

\* C8 witness: the loop fetched a state with has_updates false and waits for
\* the next tick with the first catalog still in the maps.
C8_Witness ==
    /\ client = "ready" /\ poll.pc = "tick"
    /\ fetches_left < MaxFetch
    /\ ~poll.data.has_updates
    /\ Len(installed) = 1 /\ installed[1] = Catalog1
    /\ gates = ToMap(Catalog1.feature_gates) /\ DOMAIN gates # {}
    /\ dynamic_configs = ToMap(Catalog1.dynamic_configs)

\* The time fields of the catalogs that were stored, in the order of storing.
InstalledTimes ==
    LET timed == SelectSeq(installed, LAMBDA d : IsSome(d.time))
    IN [i \in DOMAIN timed |-> Unwrap(timed[i].time)]
\* What a cursor advanced from each stored response's time would hold.
LastUpdateTime ==
    IF InstalledTimes = <<>> THEN None ELSE Some(InstalledTimes[Len(InstalledTimes)])

\* C9, as claimed: every download of the refresh loop carries the time of the
\* last stored catalog, and the times of the stored catalogs never decrease.
C9_CursorSentAndMonotone ==
    /\ poll.pc = "fetch" => Unwrap(poll.request).since_time = LastUpdateTime
    /\ \A i, j \in DOMAIN InstalledTimes : i < j => InstalledTimes[i] <= InstalledTimes[j]

\* ------------------------------------------------------------------------
\* Properties of construction and of the cache modes (SpecFacade).

\* C11: with the cache disabled no catalog is downloaded or stored, neither
\* background task is started, no flush is spawned, the exposure queue is and
\* stays empty, the evaluator is never called, and every call with a user id
\* makes exactly one transport decision call and returns what it answers.
C11_CacheDisabledDelegates ==
    disable_cache =>
        /\ installed = <<>> /\ poll.request = None
        /\ \A m \in MapNames : DOMAIN MapOf(m) = {}
        /\ poll.pc = "off" /\ Len(tasks) = 1 /\ tasks[1].pc = "off"
        /\ event_logs = <<>> /\ next_seq = 0 /\ drained = <<>> /\ posted = <<>>
        /\ \A t \in Callers :
              LET c == call[t] IN
              /\ c.evals = 0 /\ c.res = None /\ c.observed = {} /\ stack[t] = <<>>
              /\ c.enq = 0 /\ c.custom = 0
              /\ (c.op # "none" /\ c.user.user_id # "") =>
                    /\ c.posts = 1 /\ pc[t] \in {"http", "idle"}
                    /\ pc[t] = "idle" =>
                          /\ IsSome(c.reply) /\ IsSome(c.out)
                          /\ ~Unwrap(c.reply).ok => c.out = c.reply
                          /\ Unwrap(c.out).ok =>
                                /\ Unwrap(c.reply).ok
                                /\ Unwrap(c.out).body.pass = Unwrap(c.reply).body.pass
                                /\ Unwrap(c.out).body.value = Unwrap(c.reply).body.value

\* C11 witness: a get_experiment of a cache-disabled client returned the
\* server's config.
C11_Witness ==
    /\ disable_cache /\ client = "ready"
    /\ \E t \in Callers :
          /\ Returned(t) /\ call[t].op = "get_experiment"
          /\ Unwrap(call[t].out).ok
          /\ Unwrap(call[t].out).body.rule_id = "server_rule"
    /\ calls_left = 0

\* C12: a caching client serves no call before Client::new has stored the
\* first catalog; when the first fetch fails there is no client: no call is
\* ever served, nothing is stored and neither background loop is started; when
\* it succeeds the maps hold that catalog and the refresh loop and the timer
\* flush loop are both started.
C12_NewFetchesFirst ==
    ~disable_cache =>
        /\ client \in {"new", "failed"} =>
              /\ installed = <<>> /\ \A m \in MapNames : DOMAIN MapOf(m) = {}
              /\ poll.pc = "off" /\ Len(tasks) = 1 /\ tasks[1].pc = "off"
              /\ \A t \in Callers : call[t].op = "none" /\ pc[t] = "idle"
        /\ client = "ready" =>
              /\ Len(installed) = 1
              /\ dynamic_configs = ToMap(installed[1].dynamic_configs)
              /\ gates = ToMap(installed[1].feature_gates)
              /\ layer_configs = ToMap(installed[1].layer_configs)
              /\ poll.pc = "tick" /\ tasks[1].pc = "sleep"
              /\ \A k \in DOMAIN tasks : k > 1 => tasks[k] = SpawnedFlush
        /\ \A t \in Callers :
              call[t].op # "none" =>
                  client = "ready" /\ (call[t].evals > 0 => call[t].since = 1)

\* C12 witness: a call was decided from the catalog Client::new stored.
C12_Witness ==
    /\ ~disable_cache /\ client = "ready"
    /\ \E t \in Callers :
          /\ Returned(t) /\ call[t].op = "check_gate" /\ call[t].name = "A"
          /\ Unwrap(call[t].out).ok /\ Unwrap(call[t].out).body.pass
          /\ call[t].since = 1

\* ------------------------------------------------------------------------
\* Properties of the background tasks' life (SpecLifecycle).

\* C13, as claimed: once the caller has dropped its handle, poll_for_changes
\* and background_logs_flush eventually exit.
C13_TasksExitAfterDrop ==
    (client = "dropped") ~> (poll.pc = "exited" /\ tasks[1].pc = "exited")

\* ------------------------------------------------------------------------
\* Properties of the evaluator (SpecEval).  The rules of CatalogEval are
\* read here by what they ask of the user, independently of eval_condition:
\* their conditions are public, an email to equal, or a gate, and every gate
\* they name has at most one rule, which is public.

\* Whether a gate named by a condition passes for every user.
LeafGatePasses(g) ==
    /\ g \in DOMAIN gates /\ gates[g].enabled
    /\ IsSome(gates[g].rules) /\ Unwrap(gates[g].rules) # <<>>
    /\ Unwrap(gates[g].rules)[1].pass_percentage = 100
\* The id such a gate's evaluation carries.
LeafGateId(g) ==
    IF g \notin DOMAIN gates THEN "default"
    ELSE IF ~gates[g].enabled THEN "disabled"
    ELSE Unwrap(gates[g].rules)[1].id

Holds(user, cond) ==
    CASE cond.type = "public" -> TRUE
      [] cond.type = "user_field" -> user.email = Some(Unwrap(cond.target_value).v)
      [] cond.type = "pass_gate" -> LeafGatePasses(Unwrap(cond.target_value).v)
      [] cond.type = "fail_gate" -> ~LeafGatePasses(Unwrap(cond.target_value).v)

Matches(user, rule) == \A i \in DOMAIN rule.conditions : Holds(user, rule.conditions[i])

RulesIn(spec) == IF IsSome(spec.rules) THEN Unwrap(spec.rules) ELSE <<>>

\* The first rule whose conditions all hold, as a set of at most one index.
DecidingRule(user, spec) ==
    {i \in DOMAIN RulesIn(spec) :
        /\ Matches(user, RulesIn(spec)[i])
        /\ \A j \in 1 .. (i - 1) : ~Matches(user, RulesIn(spec)[j])}

\* The gates the conditions of the first `upto` rules name, in order, and
\* the secondary exposures their evaluations leave.
RECURSIVE GatesNamed(_, _)
GatesNamed(rules, upto) ==
    IF upto = 0 THEN <<>>
    ELSE LET conds == SelectSeq(rules[upto].conditions,
                                LAMBDA c : c.type \in {"pass_gate", "fail_gate"})
         IN GatesNamed(rules, upto - 1) \o
            [i \in DOMAIN conds |-> Unwrap(conds[i].target_value).v]
ExposuresUpTo(rules, upto) ==
    LET gs == GatesNamed(rules, upto)
    IN [i \in DOMAIN gs |->
           [gate |-> gs[i], gateValue |-> IF LeafGatePasses(gs[i]) THEN "true" ELSE "false",
            ruleID |-> LeafGateId(gs[i])]]

Coerced(v, spec) == IF spec.type = "dynamic_config" THEN Some(v) ELSE None

\* The calls the evaluator has decided for a name the catalog has.
Found(c) ==
    /\ IsSome(c.res)
    /\ c.name \in DOMAIN (IF c.op = "check_gate" THEN gates ELSE dynamic_configs)
SpecFor(c) == IF c.op = "check_gate" THEN gates[c.name] ELSE dynamic_configs[c.name]
LookedUp(c) == {o.name : o \in c.observed}
RangeOf(seq) == {seq[i] : i \in DOMAIN seq}

\* C14: for an enabled spec, the first rule in list order whose conditions all
\* hold decides: the result's id is that rule's id, its secondary exposures
\* are those of the rules up to it, and no gate that only a later rule names
\* is looked up; with a bucket that passes (100 percent) the result is
\* pass = true with rule_id = rule.id, group = rule.name, the rule's group name
\* and the rule's return value (for a dynamic config; no value for a gate);
\* with one that fails (0 percent) it is pass = false with rule_id, group and
\* group name "default" and the spec's default value.
C14_FirstMatchingRuleDecides ==
    \A t \in Callers :
        LET c == call[t] IN
        (Found(c) /\ SpecFor(c).enabled) =>
            \A i \in DecidingRule(c.user, SpecFor(c)) :
                LET spec == SpecFor(c)
                    rule == RulesIn(spec)[i]
                    res == Unwrap(c.res)
                IN /\ ~res.fetch_from_server
                   /\ res.id = rule.id
                   /\ res.secondary_exposures = ExposuresUpTo(RulesIn(spec), i)
                   /\ LookedUp(c) = {c.name} \cup RangeOf(GatesNamed(RulesIn(spec), i))
                   /\ IF rule.pass_percentage = 100
                      THEN /\ res.pass /\ res.rule_id = rule.id /\ res.group = rule.name
                           /\ res.group_name = rule.group_name
                           /\ res.config_value = Coerced(rule.return_value, spec)
                      ELSE /\ ~res.pass /\ res.rule_id = "default" /\ res.group = "default"
                           /\ res.group_name = Some("default")
                           /\ res.config_value = Coerced(spec.default_value, spec)

\* C14 witness: config R for the user without the email: rule r1 does not
\* match, r2 matches and its bucket fails, r3 and its gate are never looked at.
C14_Witness ==
    \E t \in Callers :
        /\ Found(call[t]) /\ call[t].name = "R" /\ call[t].user = U1
        /\ Unwrap(call[t].res).id = "r2" /\ ~Unwrap(call[t].res).pass
        /\ Unwrap(call[t].res).config_value = Some(JObj("RD"))
        /\ "P100" \notin LookedUp(call[t])

\* C15: for an enabled spec none of whose rules has all its conditions hold
\* (a spec without rules included) the result is pass = false with id, rule_id
\* and group "default", the spec's default value for a dynamic config (no
\* value for a gate) and the secondary exposures of all the rules, in order.
C15_NoRuleMatchesGivesDefault ==
    \A t \in Callers :
        LET c == call[t] IN
        (Found(c) /\ SpecFor(c).enabled /\ DecidingRule(c.user, SpecFor(c)) = {}) =>
            LET spec == SpecFor(c)
                res == Unwrap(c.res)
            IN /\ ~res.pass /\ ~res.fetch_from_server
               /\ res.id = "default" /\ res.rule_id = "default" /\ res.group = "default"
               /\ res.config_value = Coerced(spec.default_value, spec)
               /\ res.secondary_exposures = ExposuresUpTo(RulesIn(spec), Len(RulesIn(spec)))

\* C15 witness: gate N, whose two rules both fail, was decided with the
\* exposures of both rules.
C15_Witness ==
    \E t \in Callers :
        /\ Found(call[t]) /\ call[t].name = "N"
        /\ DecidingRule(call[t].user, SpecFor(call[t])) = {}
        /\ Unwrap(call[t].res).secondary_exposures =
              <<[gate |-> "P100", gateValue |-> "true", ruleID |-> "p100"],
                [gate |-> "P0", gateValue |-> "false", ruleID |-> "p0"]>>

\* The spec an exposure event is about.
EventSpecs(e) ==
    IF "gate" \in DOMAIN e.metadata
    THEN {gates[n] : n \in {e.metadata.gate} \cap DOMAIN gates}
    ELSE {dynamic_configs[n] : n \in {e.metadata.config} \cap DOMAIN dynamic_configs}

\* C16: a disabled spec evaluates to pass = false with id "disabled" and no
\* secondary exposure, and nothing its rules name is looked up; every queued
\* exposure event about a disabled spec has value "false" and ruleID
\* "disabled", and so has every secondary exposure about a disabled gate.
C16_DisabledSpecIsDisabled ==
    /\ \A t \in Callers :
          LET c == call[t] IN
          (Found(c) /\ ~SpecFor(c).enabled) =>
              /\ ~Unwrap(c.res).pass /\ ~Unwrap(c.res).fetch_from_server
              /\ Unwrap(c.res).id = "disabled"
              /\ Unwrap(c.res).secondary_exposures = <<>>
              /\ LookedUp(c) = {c.name}
    /\ \A i \in DOMAIN event_logs :
          \A spec \in EventSpecs(event_logs[i]) :
              ~spec.enabled =>
                  event_logs[i].metadata.ruleID = "disabled" /\ event_logs[i].value = "false"
    /\ \A t \in Callers :
          IsSome(call[t].res) =>
              \A x \in RangeOf(Unwrap(call[t].res).secondary_exposures) :
                  (x.gate \in DOMAIN gates /\ ~gates[x.gate].enabled) =>
                      x.ruleID = "disabled" /\ x.gateValue = "false"

\* C16 witness: the disabled gate D was checked and its exposure queued, and
\* then gate ND, whose pass_gate and fail_gate conditions name D, was decided.
C16_Witness ==
    /\ \E i \in DOMAIN event_logs :
          /\ event_logs[i].event_name = "statsig::gate_exposure"
          /\ event_logs[i].metadata.gate = "D"
          /\ event_logs[i].metadata.ruleID = "disabled"
    /\ \E t \in Callers :
          /\ Found(call[t]) /\ call[t].name = "ND" /\ Unwrap(call[t].res).id = "nd2"
          /\ [gate |-> "D", gateValue |-> "false", ruleID |-> "disabled"]
                \in RangeOf(Unwrap(call[t].res).secondary_exposures)

\* C17, as claimed: get_dynamic_config and get_config on a disabled dynamic
\* config return the config's default value.
C17_DisabledConfigYieldsDefault ==
    \A t \in Callers :
        LET c == call[t] IN
        (Found(c) /\ ~SpecFor(c).enabled /\ Returned(t)
         /\ c.op \in {"get_dynamic_config", "get_config"}) =>
            /\ Unwrap(c.res).config_value = Some(SpecFor(c).default_value)
            /\ Unwrap(c.out).ok
            /\ Unwrap(c.out).body.value = Some(SpecFor(c).default_value)

\* C18, as claimed (SpecFacade): with the cache, check_gate, get_dynamic_config,
\* get_config and get_experiment on a name the catalog does not have return
\* Ok without a transport decision call.
C18_UnknownNameNeverAnError ==
    \A t \in Callers :
        LET c == call[t] IN
        (/\ ~disable_cache /\ Returned(t) /\ c.user.user_id # ""
         /\ c.op \in {"check_gate", "get_dynamic_config", "get_config", "get_experiment"}
         /\ c.name \notin DOMAIN (IF c.op = "check_gate" THEN gates ELSE dynamic_configs)) =>
            Unwrap(c.out).ok /\ c.posts = 0

\* C19: the step in which a locally decided check_gate returns appends one
\* event to the queue: its name is "statsig::gate_exposure", its user the
\* call's, its value and metadata.gateValue the string of the boolean the call
\* returns, metadata.gate the gate's name and metadata.ruleID the id of the
\* evaluation result, which for a gate with a rule that matched is that
\* rule's id whether its bucket passed or not.
C19_GateExposureEvent ==
    [][\A t \in Callers :
          (pc[t] = "exposure_locked" /\ pc'[t] = "idle" /\ call[t].op = "check_gate") =>
              LET e == event_logs'[Len(event_logs')]
                  c == call'[t]
                  out == Unwrap(c.out)
                  returned == IF out.body.pass THEN "true" ELSE "false"
              IN /\ Len(event_logs') = Len(event_logs) + 1
                 /\ SubSeq(event_logs', 1, Len(event_logs)) = event_logs
                 /\ out.ok
                 /\ e.event_name = "statsig::gate_exposure" /\ e.user = c.user
                 /\ e.value = returned
                 /\ DOMAIN e.metadata = {"gate", "gateValue", "ruleID"}
                 /\ e.metadata.gate = c.name
                 /\ e.metadata.gateValue = returned
                 /\ e.metadata.ruleID = Unwrap(c.res).id
                 /\ (Found(c) /\ SpecFor(c).enabled) =>
                       \A i \in DecidingRule(c.user, SpecFor(c)) :
                           /\ e.metadata.ruleID = RulesIn(SpecFor(c))[i].id
                           /\ out.body.pass = (RulesIn(SpecFor(c))[i].pass_percentage = 100)
      ]_vars

\* C19 witness: gate P100 was checked and returned true, then gate P0
\* returned false; the queue holds both events with the ids of their rules.
C19_Witness ==
    /\ Len(event_logs) = 2
    /\ event_logs[1].metadata = [gate |-> "P100", gateValue |-> "true", ruleID |-> "p100"]
    /\ event_logs[2].metadata = [gate |-> "P0", gateValue |-> "false", ruleID |-> "p0"]
    /\ event_logs[2].value = "false"
    /\ \E t \in Callers :
          Returned(t) /\ call[t].name = "P0" /\ ~Unwrap(call[t].out).body.pass

\* ------------------------------------------------------------------------
\* Properties of the bucket computations (SpecHash).

\* 256^(8-i) mod m, the weight of the i-th byte of a big-endian u64 modulo m.
Weight(i, m) ==
    IF m = 10000 THEN <<7936, 656, 7776, 7296, 7216, 5536, 256, 1>>[i]
    ELSE <<936, 656, 776, 296, 216, 536, 256, 1>>[i]
WeightedMod(hash, m) ==
    (hash[1] * Weight(1, m) + hash[2] * Weight(2, m) + hash[3] * Weight(3, m)
     + hash[4] * Weight(4, m) + hash[5] * Weight(5, m) + hash[6] * Weight(6, m)
     + hash[7] * Weight(7, m) + hash[8] * Weight(8, m)) % m

\* C20: the bucket is the hash modulo 10000 and lies in 0 .. 9999, the check
\* passes exactly when the bucket is below 100 times the percentage, so
\* always at 100 percent and never at 0 percent; the user bucket is the hash
\* modulo 1000 and lies in 0 .. 999.
C20_BucketRanges ==
    probe.computed =>
        /\ probe.bucket = WeightedMod(probe.hash, 10000)
        /\ probe.bucket \in 0 .. 9999
        /\ probe.pass <=> (probe.bucket < probe.pass_percentage * 100)
        /\ probe.pass_percentage = 100 => probe.pass
        /\ probe.pass_percentage = 0 => ~probe.pass
        /\ probe.user_bucket = WeightedMod(probe.hash, 1000)
        /\ probe.user_bucket \in 0 .. 999

\* C20 witness: the hash 0, whose bucket is 0, did not pass at 0 percent.
C20_Witness ==
    /\ probe.computed /\ probe.hash = <<0, 0, 0, 0, 0, 0, 0, 0>>
    /\ probe.pass_percentage = 0 /\ probe.bucket = 0 /\ ~probe.pass

\* ------------------------------------------------------------------------
\* Properties of the wall clock (SpecClock).

\* Both callers evaluated the same name for the same user; the catalog of
\* SpecClock never changes.
SameEvaluation ==
    /\ IsSome(call["c1"].res) /\ IsSome(call["c2"].res)
    /\ call["c1"].op = call["c2"].op
    /\ call["c1"].name = call["c2"].name
    /\ call["c1"].user = call["c2"].user

EvaluatedGate(t) == IsSome(call[t].res) /\ call[t].op = "check_gate"

\* The gates of one rule and one condition, which is a gate condition.
OneGateCondition == {"PP", "PN", "FP", "FN", "PD", "FD", "M1", "M2", "T1", "T2", "T3", "T4"}
TheCondition(name) == Unwrap(gates[name].rules)[1].conditions[1]

\* Whether a gate condition names its gate by a string.
Named(c) == IsSome(c.target_value) /\ Unwrap(c.target_value).t = "string"
NameIn(c) == Unwrap(c.target_value).v

\* C22: a pass_gate condition passes exactly when the gate it names passes, a
\* fail_gate condition exactly when it fails; a gate that does not exist
\* fails without asking the server; a condition that names no gate, or names
\* it by something that is no string, fails whatever its type.
C22_GateConditionFollowsGate ==
    \A t \in Callers :
        EvaluatedGate(t) /\ call[t].name \in OneGateCondition =>
            LET c == TheCondition(call[t].name)
                res == Unwrap(call[t].res)
            IN /\ ~res.fetch_from_server
               /\ res.pass <=>
                    /\ Named(c)
                    /\ \/ c.type = "pass_gate" /\ LeafGatePasses(NameIn(c))
                       \/ c.type = "fail_gate" /\ ~LeafGatePasses(NameIn(c))

\* C22 witness: gate M2, whose fail_gate condition names the missing gate zz,
\* passed without a request to the server.
C22_Witness ==
    /\ EvaluatedGate("c1") /\ call["c1"].name = "M2" /\ Returned("c1")
    /\ Unwrap(call["c1"].res).pass /\ call["c1"].posts = 0

\* The exposure record of a gate with one public rule, of a disabled gate and
\* of a missing gate.
GateRecord(n) ==
    [gate |-> n, gateValue |-> BoolToString(LeafGatePasses(n)), ruleID |-> LeafGateId(n)]
\* The secondary exposures the evaluation of gate n returns itself: gate A
\* refers to B, the other gates named refer to none.
OwnExposures(n) == IF n = "A" THEN <<GateRecord("B")>> ELSE <<>>

\* C23: the secondary exposures of a gate condition are those of the
\* sub-result followed by one record of the gate named, its value and the id
\* of its result, as the last element; gate A, whose rule asks for gate B,
\* which passes by rule b1, returns exactly that one record of B.
C23_SubExposuresThenNewRecord ==
    \A t \in Callers :
        /\ EvaluatedGate(t)
             /\ call[t].name \in {"A", "AA", "PUK", "PP", "PN", "FP", "FN", "PD", "FD", "M1", "M2"}
           => LET n == NameIn(TheCondition(call[t].name)) IN
              Unwrap(call[t].res).secondary_exposures = OwnExposures(n) \o <<GateRecord(n)>>
        /\ EvaluatedGate(t) /\ call[t].name = "A"
           => /\ Unwrap(call[t].res).pass
              /\ Unwrap(call[t].res).secondary_exposures =
                    <<[gate |-> "B", gateValue |-> "true", ruleID |-> "b1"]>>

\* C23 witness: gate AA returned the record of B, which A's evaluation left,
\* and then the record of A.
C23_Witness ==
    /\ EvaluatedGate("c1") /\ call["c1"].name = "AA"
    /\ Unwrap(call["c1"].res).secondary_exposures =
          <<[gate |-> "B", gateValue |-> "true", ruleID |-> "b1"],
            [gate |-> "A", gateValue |-> "true", ruleID |-> "a1"]>>

\* The gate conditions of the first `upto` rules, in order.
RECURSIVE GateConditions(_, _)
GateConditions(rules, upto) ==
    IF upto = 0 THEN <<>>
    ELSE GateConditions(rules, upto - 1)
         \o SelectSeq(rules[upto].conditions, LAMBDA c : c.type \in {"pass_gate", "fail_gate"})

\* The gate conditions an evaluation of gate n traverses: all of them when n
\* is there and enabled (every gate the catalog's conditions name is decided
\* by its last rule), none otherwise.
Inside(n) ==
    IF n \in DOMAIN gates /\ gates[n].enabled
    THEN GateConditions(RulesIn(gates[n]), Len(RulesIn(gates[n])))
    ELSE <<>>

\* The names of the gates the conditions conds[i], conds[i+1], ... lead to:
\* a condition's own gate before (pre) or after the gates its gate leads to.
RECURSIVE Walk(_, _, _)
Walk(conds, i, pre) ==
    IF i > Len(conds) THEN <<>>
    ELSE LET c == conds[i]
             inner == Walk(Inside(NameIn(c)), 1, pre)
             here == IF ~Named(c) THEN <<>>
                     ELSE IF pre THEN <<NameIn(c)>> \o inner
                     ELSE inner \o <<NameIn(c)>>
         IN here \o Walk(conds, i + 1, pre)

\* How many gate conditions are traversed, named or not.
RECURSIVE Traversals(_, _)
Traversals(conds, i) ==
    IF i > Len(conds) THEN 0
    ELSE (IF Named(conds[i]) THEN 1 + Traversals(Inside(NameIn(conds[i])), 1) ELSE 1)
         + Traversals(conds, i + 1)

\* The gate conditions the passing evaluation of gate `name` traversed itself:
\* those of its rules up to the rule that decided, whose id the result has.
TraversedBy(name, res) ==
    LET rules == RulesIn(gates[name])
        last == CHOOSE i \in DOMAIN rules : rules[i].id = res.id
    IN GateConditions(rules, last)

GatesOf(exposures) == [i \in DOMAIN exposures |-> exposures[i].gate]

\* C24 as stated: a passing evaluation carries one secondary exposure for
\* every gate condition traversed, nested ones and those of earlier rules
\* included, in pre-order of the traversal.
C24_OnePerConditionInPreOrder ==
    \A t \in Callers :
        EvaluatedGate(t) /\ Unwrap(call[t].res).pass =>
            LET res == Unwrap(call[t].res)
                conds == TraversedBy(call[t].name, res)
            IN /\ Len(res.secondary_exposures) = Traversals(conds, 1)
               /\ GatesOf(res.secondary_exposures) = Walk(conds, 1, TRUE)

\* C24 amended: a passing evaluation carries one secondary exposure for every
\* gate condition traversed that names its gate by a string, nested ones and
\* those of earlier rules included; the exposures a condition's gate left come
\* before the exposure of the condition itself (post-order).
C24_OnePerNamedConditionInPostOrder ==
    \A t \in Callers :
        EvaluatedGate(t) /\ Unwrap(call[t].res).pass =>
            LET res == Unwrap(call[t].res)
                conds == TraversedBy(call[t].name, res)
            IN GatesOf(res.secondary_exposures) = Walk(conds, 1, FALSE)

\* C24 witness: gate X passed by its second rule with the exposure of its
\* first rule's gate, then those of the chain AA, A, B from the inside out,
\* then that of P0.
C24_Witness ==
    /\ EvaluatedGate("c1") /\ call["c1"].name = "X"
    /\ Unwrap(call["c1"].res).pass /\ Unwrap(call["c1"].res).id = "x2"
    /\ GatesOf(Unwrap(call["c1"].res).secondary_exposures) = <<"P0", "B", "A", "AA", "P0">>

\* The first rule one of whose conditions needs the server (it has the
\* operator str_matches), and the gates the rules before and after it name.
ServerRule(rules) ==
    CHOOSE i \in DOMAIN rules :
        /\ \E j \in DOMAIN rules[i].conditions :
              rules[i].conditions[j].operator = Some("str_matches")
        /\ \A k \in 1 .. (i - 1) : \A j \in DOMAIN rules[k].conditions :
              rules[k].conditions[j].operator # Some("str_matches")
GatesNamedBy(rules, from, to) ==
    UNION {{NameIn(rules[i].conditions[j]) :
               j \in {k \in DOMAIN rules[i].conditions : Named(rules[i].conditions[k])}} :
           i \in from .. to}

\* C25: when eval_spec reaches a rule that needs the server, it returns at
\* once with fetch_from_server: no gate of a later rule is looked up, and no
\* exposure gathered from the earlier rules is in the result.
C25_FetchReturnsAtOnce ==
    \A t \in Callers :
        EvaluatedGate(t) /\ call[t].name \in {"Q", "QF"} =>
            LET res == Unwrap(call[t].res)
                rules == RulesIn(gates[call[t].name])
                k == ServerRule(rules)
            IN /\ res.fetch_from_server
               /\ \A i \in DOMAIN res.secondary_exposures :
                     res.secondary_exposures[i].gate \notin GatesNamedBy(rules, 1, k - 1)
               /\ \A seen \in call[t].observed :
                     seen.name \notin GatesNamedBy(rules, k + 1, Len(rules))

\* C25 witness: gate Q looked up P0 for its first rule and P100 for its
\* second, whose other condition needs the server, and returned
\* fetch_from_server.
C25_Witness ==
    /\ EvaluatedGate("c1") /\ call["c1"].name = "Q"
    /\ Unwrap(call["c1"].res).fetch_from_server
    /\ {seen.name : seen \in call["c1"].observed} = {"Q", "P0", "P100"}

\* C27, as claimed: an evaluation that looked up and evaluated a spec of the
\* type unknown returns fetch_from_server.
C27_UnknownTypeForcesFallback ==
    \A t \in Callers :
        /\ IsSome(call[t].res)
        /\ \E seen \in call[t].observed :
              IsSome(seen.spec) /\ Unwrap(seen.spec).type = "unknown"
        => Unwrap(call[t].res).fetch_from_server

\* ------------------------------------------------------------------------
\* Properties of the dispatch of eval_condition (SpecDispatch).

\* The operators the claim leaves to the server; a missing operator is one of
\* them.
LeftToServer(operator) ==
    \/ operator = None
    \/ Unwrap(operator) \in
          {"str_starts_with_any", "str_ends_with_any", "str_contains_any",
           "str_contains_none", "str_matches", "in_segment_list", "not_in_segment_list",
           "unknown"}

\* C26: a public condition passes whatever its operator; ip_based, ua_based
\* and unknown conditions need the server whatever their operator; a
\* condition that extracts a value needs the server when its operator is one
\* of those left to the server, is unknown or is missing; a check_gate that
\* meets a condition needing the server posts check_gate, returns the
\* server's answer and records no exposure.
C26_ConditionDispatch ==
    \A t \in Callers :
        EvaluatedGate(t) =>
            LET c == TheCondition(call[t].name)
                res == Unwrap(call[t].res)
            IN /\ c.type = "public" => res.pass /\ ~res.fetch_from_server
               /\ c.type \in {"ip_based", "ua_based", "unknown"} => res.fetch_from_server
               /\ c.type \in {"user_field", "environment_field", "current_time",
                              "user_bucket", "unit_id"}
                     /\ LeftToServer(c.operator) => res.fetch_from_server
               /\ res.fetch_from_server =>
                     /\ call[t].posts = 1 /\ call[t].enq = 0
                     /\ pc[t] \in {"http", "idle"}
                     /\ Returned(t) => call[t].out = call[t].reply

\* C26 witness: the check of the gate whose condition is on a user field with
\* the operator str_matches returned the server's true, with no exposure
\* recorded.
C26_Witness ==
    /\ EvaluatedGate("c1") /\ call["c1"].name = "user_field/str_matches" /\ Returned("c1")
    /\ call["c1"].posts = 1 /\ call["c1"].enq = 0 /\ event_logs = <<>>
    /\ Unwrap(call["c1"].out).ok /\ Unwrap(call["c1"].out).body.pass

\* ------------------------------------------------------------------------
\* Properties of the membership operators (SpecMembership).

\* The string form of a JSON scalar.
StringForm(j) == IF j.t \in {"string", "number", "bool"} THEN j.v ELSE ""

\* What the operator of condition c is to answer for a value whose string
\* form is `form`.
MembershipExpected(c, form) ==
    LET target == OptOr(c.target_value, JNull)
        SomeElement(lowered) ==
            /\ target.t = "array"
            /\ \E i \in DOMAIN target.items :
                  IF lowered
                  THEN to_ascii_lowercase(StringForm(target.items[i]))
                          = to_ascii_lowercase(form)
                  ELSE StringForm(target.items[i]) = form
        operator == Unwrap(c.operator)
    IN CASE operator = "any" -> SomeElement(TRUE)
         [] operator = "none" -> ~SomeElement(TRUE)
         [] operator = "any_case_sensitive" -> SomeElement(FALSE)
         [] operator = "none_case_sensitive" -> ~SomeElement(FALSE)

\* The string forms of the value the condition of call t compared.
ComparedForms(t) ==
    IF TheCondition(call[t].name).type = "user_field"
    THEN {OptOr(call[t].user.email, "")}
    ELSE {ToString(now) : now \in call[t].times}

\* C30, as claimed: any is true iff the target is an array and some element's
\* string form equals the value's string form after ASCII-lowercasing both;
\* none is true iff the target is no array or no element matches that way;
\* any_case_sensitive and none_case_sensitive are the same with exact
\* equality of the string forms.
C30_MembershipByStringForm ==
    \A t \in Callers :
        EvaluatedGate(t) =>
            /\ ~Unwrap(call[t].res).fetch_from_server
            /\ \A form \in ComparedForms(t) :
                  Unwrap(call[t].res).pass
                      = MembershipExpected(TheCondition(call[t].name), form)

\* ------------------------------------------------------------------------
\* Properties of the catalog locks (SpecCatalog).

\* A caller stands at the check_gate_internal of a pass_gate / fail_gate
\* condition: the enclosing evaluations are on its stack.
AtSubEvaluation(t) == pc[t] = "eval" /\ stack[t] # <<>>

\* C32, as claimed: a caller that starts the evaluation of a referenced gate
\* holds no read guard on any map of the catalog.
C32_NoGuardAcrossSubEvaluation ==
    \A t \in Callers :
        AtSubEvaluation(t) => \A m \in MapNames : rlock[m][t] = 0

\* C33, as claimed (SpecLocks): evaluations and refreshes never deadlock;
\* every evaluation that began returns, and every refresh_configs that began
\* replaces the three maps and returns.
C33_EvaluationsAndRefreshComplete ==
    /\ \A t \in Callers : (pc[t] = "eval") ~> (pc[t] # "eval")
    /\ Writing ~> (poll.pc = "tick")

\* ------------------------------------------------------------------------
\* Properties of eval_rule (SpecRule).

\* What each condition of RuleParts gives for the user: gate P100 passes by
\* its rule p100, gate P0 fails by its rule p0, gate F and str_matches need
\* the server.
Exposure(gate, value, rule) == [gate |-> gate, gateValue |-> value, ruleID |-> rule]
PartResult(label, user) ==
    CASE label = "public" -> [pass |-> TRUE, fetch |-> FALSE, exposures |-> <<>>]
      [] label = "email" ->
           [pass |-> user.email = <<"e@x">>, fetch |-> FALSE, exposures |-> <<>>]
      [] label = "matches" -> [pass |-> FALSE, fetch |-> TRUE, exposures |-> <<>>]
      [] label = "P100" ->
           [pass |-> TRUE, fetch |-> FALSE,
            exposures |-> <<Exposure("P100", "true", "p100")>>]
      [] label = "P0" ->
           [pass |-> FALSE, fetch |-> FALSE,
            exposures |-> <<Exposure("P0", "false", "p0")>>]
      [] label = "notP0" ->
           [pass |-> TRUE, fetch |-> FALSE,
            exposures |-> <<Exposure("P0", "false", "p0")>>]
      [] label = "F" -> [pass |-> FALSE, fetch |-> TRUE, exposures |-> <<>>]

LabelOf(c) == (CHOOSE p \in {RuleParts[i] : i \in DOMAIN RuleParts} : p.condition = c).label

\* C34: the result of a gate whose one rule holds two conditions is made of
\* both conditions' results, whatever the first one gave: pass is the AND of
\* the passes, fetch_from_server the OR, and the secondary exposures are the
\* first condition's followed by the second's.
C34_RuleFoldsEveryCondition ==
    \A t \in Callers :
        EvaluatedGate(t) =>
            LET conditions == Unwrap(gates[call[t].name].rules)[1].conditions
                first == PartResult(LabelOf(conditions[1]), call[t].user)
                second == PartResult(LabelOf(conditions[2]), call[t].user)
                res == Unwrap(call[t].res)
            IN /\ res.pass = (first.pass /\ second.pass)
               /\ res.fetch_from_server = (first.fetch \/ second.fetch)
               /\ res.secondary_exposures = first.exposures \o second.exposures

\* C34 witness: the first condition asked for the server, and the exposure
\* of the second condition's gate is in the rule's result all the same.
C34_Witness ==
    /\ EvaluatedGate("c1") /\ call["c1"].name = "matches+P100"
    /\ Unwrap(call["c1"].res).fetch_from_server
    /\ Unwrap(call["c1"].res).secondary_exposures = <<Exposure("P100", "true", "p100")>>

\* ------------------------------------------------------------------------
\* Properties of the fallback behind gate references (SpecDepth).

\* The conditions of the one rule of a gate of CatalogDepth, and the gate a
\* pass_gate / fail_gate condition refers to.
ConditionsOf(name) == Unwrap(ToMap(CatalogDepth.feature_gates)[name].rules)[1].conditions
Refers(c) == c.type \in {"pass_gate", "fail_gate"}

\* The gate needs the server: a condition of its rule has the operator
\* str_matches, or refers to a gate that needs the server.
RECURSIVE NeedsServer(_)
NeedsServer(name) ==
    \E i \in DOMAIN ConditionsOf(name) :
        LET c == ConditionsOf(name)[i]
        IN IF Refers(c) THEN NeedsServer(NameIn(c)) ELSE c.operator = Some("str_matches")

\* A gate one of whose conditions refers to a gate that needs the server.
RefersToServerGate(name) ==
    \E i \in DOMAIN ConditionsOf(name) :
        Refers(ConditionsOf(name)[i]) /\ NeedsServer(NameIn(ConditionsOf(name)[i]))

\* The exposures of the conditions i .. of the gate's rule that refer to P100
\* or P0, in condition order.
RECURSIVE BesideFrom(_, _)
BesideFrom(name, i) ==
    IF i > Len(ConditionsOf(name)) THEN <<>>
    ELSE LET c == ConditionsOf(name)[i]
             own == CASE Refers(c) /\ NameIn(c) = "P100" ->
                            <<Exposure("P100", "true", "p100")>>
                      [] Refers(c) /\ NameIn(c) = "P0" ->
                            <<Exposure("P0", "false", "p0")>>
                      [] OTHER -> <<>>
         IN own \o BesideFrom(name, i + 1)

\* C35, as claimed: when a gate referred to by a pass_gate / fail_gate
\* condition needs the server, at whatever depth the need arises, the
\* evaluation of the referring gate returns fetch_from_server with no
\* secondary exposures.
C35_FallbackPropagatesBare ==
    \A t \in Callers :
        EvaluatedGate(t) /\ RefersToServerGate(call[t].name) =>
            /\ Unwrap(call[t].res).fetch_from_server
            /\ Unwrap(call[t].res).secondary_exposures = <<>>

\* C35, amended: ... the evaluation of the referring gate returns
\* fetch_from_server, and its secondary exposures are those of the rule's
\* other conditions only: nothing gathered inside the referred gate comes
\* with the fallback.
C35_FallbackPropagates ==
    \A t \in Callers :
        EvaluatedGate(t) =>
            /\ Unwrap(call[t].res).fetch_from_server = NeedsServer(call[t].name)
            /\ RefersToServerGate(call[t].name) =>
                  Unwrap(call[t].res).secondary_exposures = BesideFrom(call[t].name, 1)

\* C35 witness: K4 reached gate F through K3, K2 and K1 and returned
\* fetch_from_server with the exposure of its other condition, on P100.
C35_Witness ==
    /\ EvaluatedGate("c1") /\ call["c1"].name = "K4"
    /\ {seen.name : seen \in call["c1"].observed} = {"K4", "K3", "K2", "K1", "P0", "P100", "F"}
    /\ Unwrap(call["c1"].res).fetch_from_server
    /\ Unwrap(call["c1"].res).secondary_exposures = <<Exposure("P100", "true", "p100")>>

\* ------------------------------------------------------------------------
\* Properties of the replacement of the catalog (SpecRefresh).

\* The catalog stored last, and the specs it lists for map m.
Newest == installed[Len(installed)]
ListedIn(data, m) ==
    LET opt == CASE m = "gates" -> data.feature_gates
                 [] m = "dynamic_configs" -> data.dynamic_configs
                 [] m = "layer_configs" -> data.layer_configs
    IN IF opt = <<>> THEN {} ELSE {opt[1][i] : i \in DOMAIN opt[1]}

\* What check_gate_internal is to give for the gates A, B and F once the
\* catalog is the one given: Catalog1 has A pass by a1 after B passed by b1,
\* and F left to the server; Catalog2 has B fail by b2, A pass by a2 for that,
\* and no F; a catalog without gates finds nothing.
DecisionIn(data, name) ==
    CASE data = Catalog1 /\ name = "A" ->
           [pass |-> TRUE, fetch |-> FALSE, id |-> "a1",
            exposures |-> <<Exposure("B", "true", "b1")>>]
      [] data = Catalog1 /\ name = "B" ->
           [pass |-> TRUE, fetch |-> FALSE, id |-> "b1", exposures |-> <<>>]
      [] data = Catalog1 /\ name = "F" ->
           [pass |-> FALSE, fetch |-> TRUE, id |-> "default", exposures |-> <<>>]
      [] data = Catalog2 /\ name = "A" ->
           [pass |-> TRUE, fetch |-> FALSE, id |-> "a2",
            exposures |-> <<Exposure("B", "false", "b2")>>]
      [] data = Catalog2 /\ name = "B" ->
           [pass |-> FALSE, fetch |-> FALSE, id |-> "b2", exposures |-> <<>>]
      [] OTHER -> [pass |-> FALSE, fetch |-> FALSE, id |-> "default", exposures |-> <<>>]

\* C36: once refresh_configs has returned, every map holds exactly the specs
\* the new data lists, each under its name, and nothing of the data before;
\* an evaluation made on the newest catalog gives that catalog's decision,
\* and the plain failure for a name only an earlier catalog had.
C36_RefreshReplacesCatalog ==
    /\ (client = "ready" /\ ~Writing) =>
          \A m \in MapNames :
              /\ DOMAIN MapOf(m) = {spec.name : spec \in ListedIn(Newest, m)}
              /\ \A name \in DOMAIN MapOf(m) : MapOf(m)[name] \in ListedIn(Newest, m)
    /\ \A t \in Callers :
          (EvaluatedGate(t) /\ call[t].since = Len(installed) /\ ~Writing) =>
              LET res == Unwrap(call[t].res)
                  decision == DecisionIn(Newest, call[t].name)
              IN /\ res.pass = decision.pass
                 /\ res.fetch_from_server = decision.fetch
                 /\ res.id = decision.id
                 /\ res.secondary_exposures = decision.exposures

\* C36 witness: refresh_configs replaced Catalog1 by Catalog2 and returned;
\* gate F, which only Catalog1 has, was then looked up and not found, and its
\* check failed without asking the server.
C36_Witness ==
    /\ installed = <<Catalog1, Catalog2>> /\ poll.pc = "tick"
    /\ EvaluatedGate("c1") /\ call["c1"].name = "F" /\ call["c1"].since = 2
    /\ \E seen \in call["c1"].observed : seen.name = "F" /\ seen.spec = <<>>
    /\ ~Unwrap(call["c1"].res).pass /\ ~Unwrap(call["c1"].res).fetch_from_server

\* ------------------------------------------------------------------------
\* Properties of eq and neq (SpecEquality).

\* The values the condition of call t may have compared: the email as a JSON
\* string, the seconds of the clock as a JSON number, or null.
ComparedValues(t) ==
    CASE TheCondition(call[t].name).type = "user_field" ->
           {[t |-> "string", v |-> OptOr(call[t].user.email, ""), items |-> <<>>]}
      [] TheCondition(call[t].name).type = "current_time" ->
           {[t |-> "number", v |-> ToString(now), items |-> <<>>] : now \in call[t].times}
      [] OTHER -> {[t |-> "null", v |-> "", items |-> <<>>]}

\* What eq is to answer for condition c and the value.
EqExpected(c, value) ==
    IF IsSome(c.target_value) /\ Unwrap(c.target_value).t = "string"
    THEN value.t = "string" /\ value.v = Unwrap(c.target_value).v
    ELSE value.t = "null" \/ (value.t = "string" /\ value.v = "")

\* C31: eq with a string target is equality with the value itself; with a
\* missing or non-string target it holds iff the value is null or the empty
\* string; neq answers the opposite of eq for every value and target.
C31_EqAndNeq ==
    \A t \in Callers :
        EvaluatedGate(t) =>
            /\ ~Unwrap(call[t].res).fetch_from_server
            /\ \A value \in ComparedValues(t) :
                  Unwrap(call[t].res).pass
                      = IF Unwrap(TheCondition(call[t].name).operator) = "eq"
                        THEN EqExpected(TheCondition(call[t].name), value)
                        ELSE ~EqExpected(TheCondition(call[t].name), value)

\* C31 witness: at second 1 the number 1 is not the string "1", so neq
\* passes.
C31_Witness ==
    /\ EvaluatedGate("c1")
    /\ call["c1"].name = "current_time/neq/numeral"
    /\ call["c1"].times = {1}
    /\ Unwrap(call["c1"].res).pass

\* ------------------------------------------------------------------------
\* Properties of get_experiment (SpecFacade).

\* The evaluator's exposure records as the SecondaryExposure values the
\* caller gets, in the same order.
AsSecondaryExposures(exposures) ==
    [i \in DOMAIN exposures |->
        [gate |-> exposures[i].gate, gate_value |-> exposures[i].gateValue,
         rule_id |-> exposures[i].ruleID]]

\* A get_experiment call of a caching client that the evaluator decided.
LocalExperiment(t) == DecidedLocally(call[t]) /\ call[t].op = "get_experiment"

\* C28, as claimed: a locally evaluated get_experiment that has returned has
\* sent exactly one exposure through log_custom_exposure and has appended no
\* event to the queue, and the result it returns carries the evaluation's
\* secondary exposures in evaluation order.
C28_ExperimentExposure ==
    \A t \in Callers :
        LocalExperiment(t) /\ Returned(t) =>
            /\ call[t].custom = 1
            /\ call[t].enq = 0
            /\ Unwrap(call[t].out).ok =>
                  Unwrap(call[t].out).body.secondary_exposures =
                      AsSecondaryExposures(Unwrap(call[t].res).secondary_exposures)

\* C29: when log_custom_exposure fails, get_experiment still returns the
\* locally computed result; get_experiment never returns while the call it
\* made is unanswered.
C29_ExposureFailureAbsorbed ==
    \A t \in Callers :
        LocalExperiment(t) /\ call[t].custom > 0 =>
            /\ Returned(t) <=> IsSome(call[t].custom_ok)
            /\ ~Returned(t) => pc[t] = "custom_exposure"
            /\ Returned(t) =>
                  LET res == Unwrap(call[t].res)
                      out == Unwrap(call[t].out)
                  IN /\ out.ok
                     /\ out.body.name = call[t].name
                     /\ out.body.group = res.group
                     /\ out.body.group_name = res.group_name
                     /\ out.body.rule_id = res.rule_id
                     /\ out.body.value =
                           (IF IsSome(res.config_value) /\ Unwrap(res.config_value).t # "null"
                            THEN res.config_value ELSE None)
                     /\ out.body.secondary_exposures =
                           AsSecondaryExposures(res.secondary_exposures)

\* C29 witness: log_custom_exposure failed and get_experiment returned the
\* value of rule c1 with the exposures of gates B and A.
C29_Witness ==
    /\ LocalExperiment("c1") /\ Returned("c1")
    /\ call["c1"].custom_ok = Some(FALSE)
    /\ Unwrap(call["c1"].out).ok
    /\ Unwrap(call["c1"].out).body.value = Some(JObj("ONE"))
    /\ Len(Unwrap(call["c1"].out).body.secondary_exposures) = 2

\* ------------------------------------------------------------------------
\* Properties of get_unix_epoch (SpecEpoch).

\* What the integer value of each sampled magnitude is to become: itself up
\* to i32::MAX, a thousandth of itself beyond.
MagnitudeTable ==
    <<<<"1", "1">>, <<"999", "999">>, <<"1000", "1000">>, <<"1999", "1999">>,
      <<"1700000000", "1700000000">>, <<"2147483646", "2147483646">>,
      <<"2147483647", "2147483647">>, <<"2147483648", "2147483">>,
      <<"1700000000000", "1700000000">>, <<"2147483647999", "2147483647">>,
      <<"9223372036854775807", "9223372036854775">>>>
\* The epoch of a value: 0 for what is no integer of an i64, the table's
\* entry for a magnitude, with the sign of the value.
EpochExpected(v) ==
    IF v.t \notin {"number", "string"} THEN "0"
    ELSE IF \E i \in DOMAIN MagnitudeTable : MagnitudeTable[i][1] = v.v
    THEN (CHOOSE e \in {MagnitudeTable[i] : i \in DOMAIN MagnitudeTable} : e[1] = v.v)[2]
    ELSE IF \E i \in DOMAIN MagnitudeTable : "-" \o MagnitudeTable[i][1] = v.v
    THEN "-" \o (CHOOSE e \in {MagnitudeTable[i] : i \in DOMAIN MagnitudeTable} :
                    "-" \o e[1] = v.v)[2]
    ELSE IF v.v = "-9223372036854775808" THEN "-9223372036854775"
    ELSE "0"

\* C37: the epoch of null, of a boolean, of an array and of an object is 0,
\* that of a number is its integer value and that of a string its parsed
\* integer, 0 if it has none, divided by 1000 whenever its magnitude exceeds
\* i32::MAX, for negative values as for positive ones.
C37_EpochSeconds ==
    probe.computed /\ probe.hash = <<>> =>
        I64Text(probe.epoch) = EpochExpected(probe.value)


\* ------------------------------------------------------------------------
\* Properties of get_field (SpecField).

\* The keys a field is looked up under: its name, then its lowercased name.
KeysTried(field) == IF field = "Plan" THEN <<"Plan", "plan">> ELSE <<field>>
HoldsField(mo, field) ==
    IsSome(mo) /\ \E i \in DOMAIN KeysTried(field) : KeysTried(field)[i] \in DOMAIN Unwrap(mo)
Stored(mo, field) ==
    LET keys == KeysTried(field)
        i == CHOOSE i \in DOMAIN keys :
                /\ keys[i] \in DOMAIN Unwrap(mo)
                /\ \A j \in 1 .. i - 1 : keys[j] \notin DOMAIN Unwrap(mo)
    IN Unwrap(mo)[keys[i]]

\* C39: a field that is no built-in scalar is what custom stores under its
\* name, the exact key before the lowercased one; otherwise what
\* private_atributes stores, also when custom is present without the field;
\* and the empty string only when neither map has the field.
C39_FieldFallsThroughToPrivate ==
    probe.computed /\ probe.field \in {"plan", "Plan"} =>
        /\ HoldsField(probe.user.custom, probe.field) =>
              probe.got = Stored(probe.user.custom, probe.field)
        /\ ~HoldsField(probe.user.custom, probe.field)
              /\ HoldsField(probe.user.private_atributes, probe.field) =>
              probe.got = Stored(probe.user.private_atributes, probe.field)
        /\ probe.got = "" =>
              /\ ~HoldsField(probe.user.custom, probe.field)
              /\ ~HoldsField(probe.user.private_atributes, probe.field)


\* ------------------------------------------------------------------------
\* Properties of the flushes under a ticking timer (SpecFlush).

\* The event numbered n is in the queue; it was sent in a log_event POST.
Queued(n) == \E i \in DOMAIN event_logs : event_logs[i].seq = n
Submitted(n) ==
    \E j \in DOMAIN posted : \E i \in DOMAIN posted[j].events : posted[j].events[i].seq = n

\* C38: every exposure event appended to the queue is in the end taken out
\* of it and sent in a log_event POST, while the flush timer keeps ticking
\* and the tasks are run fairly; no event stays in the queue forever.
C38_EveryEventSubmitted ==
    \A n \in 1 .. MaxCallsFlush :
        /\ Queued(n) ~> Submitted(n)
        /\ Queued(n) ~> ~Queued(n)

\* C38 witness: the timer's flush sent an event while no flush had been
\* spawned at the threshold.
C38_Witness ==
    /\ Len(tasks) = 1 /\ event_logs = <<>>
    /\ \E j \in DOMAIN posted : posted[j].by = 1 /\ Submitted(1)


\* ------------------------------------------------------------------------
\* Properties of the termination of evaluations (SpecLocks).

\* The gates the conditions of a spec refer to.
ReferredGates(spec) ==
    LET rules == IF spec.rules = <<>> THEN <<>> ELSE spec.rules[1]
    IN {NameIn(rules[i].conditions[j]) :
          <<i, j>> \in {<<i, j>> \in (DOMAIN rules) \X (1 .. 2) :
                          /\ j \in DOMAIN rules[i].conditions
                          /\ Refers(rules[i].conditions[j])
                          /\ Named(rules[i].conditions[j])}}
Greatest(S) == CHOOSE x \in S : \A y \in S : y <= x
\* The specs on the longest chain of references that starts at a spec; the
\* catalog has no cycle of references.
RECURSIVE ChainLength(_, _)
ChainLength(gate_specs, spec) ==
    1 + Greatest({0} \cup {ChainLength(gate_specs, gate_specs[n]) :
                              n \in ReferredGates(spec) \cap DOMAIN gate_specs})
LongestChain ==
    Greatest({ChainLength(ToMap(data.feature_gates), spec) :
                <<data, spec>> \in
                    {<<data, spec>> \in ServerCatalogs \X {Cfg1, Cfg2, CfgF, GateA1, GateA2,
                                                           GateB1, GateB2, GateF} :
                        \/ spec.name \in DOMAIN ToMap(data.feature_gates)
                              /\ ToMap(data.feature_gates)[spec.name] = spec
                        \/ spec.name \in DOMAIN ToMap(data.dynamic_configs)
                              /\ ToMap(data.dynamic_configs)[spec.name] = spec}})

\* C40: the references of the catalogs being acyclic, every evaluation
\* returns, and it never has more activations of eval_spec at a time, those
\* that wait for a gate they refer to and the one that looks it up, than the
\* longest chain of references has specs.
C40_EvaluationTerminates ==
    /\ [](\A t \in Callers : pc[t] = "eval" => Len(stack[t]) + 1 <= LongestChain)
    /\ \A t \in Callers : (pc[t] = "eval" /\ stack[t] = <<>>) ~> IsSome(call[t].res)


====
